---- MODULE Spec2Model ----
(***************************************************************************)
(* A model of the PayPal order services of this repository: the cached     *)
(* access token of the advanced service (src/index.js), the idempotency    *)
(* keys, the capture handlers, the card expiry normalisation, the order    *)
(* amount computation and the refund payload.                              *)
(*                                                                         *)
(* Each part of the repository has its own specification over its own      *)
(* variables; the variables of the other parts stay at their initial       *)
(* values.                                                                 *)
(***************************************************************************)
EXTENDS Integers, Sequences, FiniteSets, TLC

VARIABLES
    \* ---- the cached access token (src/index.js 166-199)
    now,            \* Date.now(), in milliseconds
    cachedToken,    \* let cachedToken = null  (NoToken is null)
    tokenExpiry,    \* let tokenExpiry = null  (NoExpiry is null)
    pc,             \* per caller: where its generateAccessToken call stands
    resp,           \* per caller: the provider's answer to its exchange, in flight
    sentAt,         \* per caller: Date.now() when its exchange request left
    ret,            \* per caller: what its last call returned
    nextTok,        \* the provider's next fresh access token
    exchanges,      \* number of token exchange requests sent so far
    issued,         \* the exchange responses the service has processed
    \* ---- the idempotency keys of order creation
    creates,        \* the order creation requests sent: service, key, order answered
    uuids,          \* number of crypto.randomUUID() values drawn
    \* ---- the capture handlers
    provider,       \* the provider's status of each order id
    orders,         \* const orders = new Map()        (src/index.js 143)
    transactions,   \* const transactions = new Map()  (src/index.js 144)
    hd,             \* per caller: the capture request it is handling
    lastReply,      \* the HTTP response sent last by a capture handler
    service,        \* which of the repository's services this process runs
    \* ---- the card expiry of createCardOrder
    cardDetails,    \* options.cardDetails: expiry is a string, here a sequence of characters
    cardDate,       \* the month and the two-digit year the caller's expiry stands for
    sentExpiry,     \* per createCardOrder variant: payment_source.card.expiry as sent
    \* ---- the order amount of create-order
    orderNums,      \* the amounts the caller means, in hundredths
    orderData,      \* req.body (options): numbers and strings as String() writes them
    cr,             \* the create-order request being handled and the status of its response
    sentOrder,      \* purchase_units[0].amount as sent to the provider
    \* ---- the refund request
    refundBody,     \* req.body of the refund request: amount, currency
    rf,             \* the refund request being handled and the status of its response
    sentRefund,     \* refundData as sent to the provider
    \* ---- the calls of createCardOrder (src/services/paypal.js 116-189)
    cc,             \* per call: where it stands, the order id creation returned
    wire,           \* per call: its requests to the provider and the answers, in order
    \* ---- the intent of order creation
    mk,             \* per call: the intent the caller supplied, the intent and units sent
    \* ---- the result of the hosted-flow createOrder
    ap,             \* per call: the provider's response and the approval URL returned
    \* ---- the outbound calls of the advanced service
    oc,             \* per handler: its route, the call it awaits and since when
    nodeEnv,        \* process.env.NODE_ENV
    \* ---- the response bodies that carry a token
    ex,             \* per handler: its route, the tokens it obtained and its response body
    \* ---- process-payment of part_000
    pp,             \* per handler: how far it got and the requests it sent
    \* ---- the fetch-based backend, part_006
    ft              \* per handler: its route, how far it got, the responses it sent

tokVars == <<now, cachedToken, tokenExpiry, pc, resp, sentAt, ret, nextTok,
             exchanges, issued>>

idVars == <<creates, uuids>>

capVars == <<provider, orders, transactions, hd, lastReply>>

cardVars == <<cardDetails, cardDate, sentExpiry>>

\* The order payload of a create-order call
amtVars == <<orderNums, orderData, cr, sentOrder>>

\* The refund request
refVars == <<refundBody, rf, sentRefund>>

\* The calls of createCardOrder and the requests they exchange with the provider
flowVars == <<cc, wire>>

\* The parts added to the first three
\* The process-payment handlers, the fetch-based backend
lateVars == <<pp, ft>>

restVars == <<flowVars, mk, ap, oc, ex, nodeEnv, lateVars>>

\* The payloads the services build, and the later parts
payloadVars == <<cardVars, amtVars, refVars, restVars>>

\* The first parts, as the later ones leave them alone
oldVars == <<tokVars, idVars, capVars, service, cardVars, amtVars, refVars>>

\* What the last parts leave alone
earlyVars == <<oldVars, flowVars, mk, ap, oc, ex, nodeEnv>>

vars == <<tokVars, idVars, capVars, service, payloadVars>>

\* What each part of the model leaves alone
tokFrame == <<idVars, capVars, service, payloadVars>>
idFrame == <<orders, transactions, hd, lastReply, service, payloadVars>>

-----------------------------------------------------------------------------
(* Bounds of the model *)

NumCallers == 2         \* concurrent request handlers calling generateAccessToken
MaxExchanges == 2       \* token exchange requests sent in one run
MaxCreates == 2         \* order creation requests sent in one run
MaxMs == 2              \* milliseconds the clock of the key model runs through

(* Program constants *)

NoToken == 0            \* cachedToken = null
NoExpiry == 0           \* tokenExpiry = null
SafetyMargin == 300000  \* 5 minute buffer
TokenTimeout == 10000   \* axios timeout of the token request
MsPerSecond == 1000     \* expires_in is in seconds
RandomRange == 1000     \* Math.floor(Math.random() * 1000)

Callers == 1..NumCallers
\* the instants at which something happens: around the request timeout
\* and around the end of a token's reuse window
Instants == {0, 5000, 10000, 300000}
ExpiresIn == {300, 600}         \* expires_in values the provider answers with

NoResp == [kind |-> "none", tok |-> NoToken, expires_in |-> 0]
NoRet == [kind |-> "none", tok |-> NoToken, cached |-> FALSE, at |-> 0]

-----------------------------------------------------------------------------
(* generateAccessToken, src/index.js 169-199 *)

\* Mutants of CacheValid: the expiry is not compared with the clock; the
\* five minute buffer is forgotten.
CacheValidNoClock ==
    /\ cachedToken # NoToken
    /\ tokenExpiry # NoExpiry

CacheValidNoMargin ==
    /\ cachedToken # NoToken
    /\ tokenExpiry # NoExpiry
    /\ now < tokenExpiry

\* if (cachedToken && tokenExpiry && Date.now() < tokenExpiry - 300000)
CacheValid ==
    /\ cachedToken # NoToken
    /\ tokenExpiry # NoExpiry
    /\ now < tokenExpiry - SafetyMargin

\* Mutant of StoreToken: the expiry of the previous token is kept.
StoreTokenKeepExpiry(r) ==
    /\ cachedToken' = r.tok
    /\ tokenExpiry' = tokenExpiry

\* cachedToken = response.data.access_token;
\* tokenExpiry = Date.now() + (response.data.expires_in * 1000);
StoreToken(r) ==
    /\ cachedToken' = r.tok
    /\ tokenExpiry' = now + (r.expires_in * MsPerSecond)

\* A call that finds the cache valid returns it at once: no await is reached.
GenTokenCacheHit(p) ==
    /\ pc[p] \in {"idle", "done", "failed"}
    /\ CacheValid
    /\ pc' = [pc EXCEPT ![p] = "done"]
    /\ ret' = [ret EXCEPT ![p] = [kind |-> "token", tok |-> cachedToken,
                                    cached |-> TRUE, at |-> now]]
    /\ UNCHANGED <<now, cachedToken, tokenExpiry, resp, sentAt, nextTok, exchanges, issued>>
    /\ UNCHANGED tokFrame

\* Otherwise the call sends the exchange request and awaits the answer.
GenTokenRequest(p) ==
    /\ pc[p] \in {"idle", "done", "failed"}
    /\ ~CacheValid
    /\ exchanges < MaxExchanges
    /\ pc' = [pc EXCEPT ![p] = "await"]
    /\ sentAt' = [sentAt EXCEPT ![p] = now]
    /\ ret' = [ret EXCEPT ![p] = NoRet]
    /\ exchanges' = exchanges + 1
    /\ UNCHANGED <<now, cachedToken, tokenExpiry, resp, nextTok, issued>>
    /\ UNCHANGED tokFrame

\* The provider answers an exchange with a fresh token, or with an error.
ProviderTokenOk(p, e) ==
    /\ pc[p] = "await"
    /\ resp[p].kind = "none"
    /\ resp' = [resp EXCEPT ![p] = [kind |-> "ok", tok |-> nextTok, expires_in |-> e]]
    /\ nextTok' = nextTok + 1
    /\ UNCHANGED <<now, cachedToken, tokenExpiry, pc, sentAt, ret, exchanges, issued>>
    /\ UNCHANGED tokFrame

ProviderTokenError(p) ==
    /\ pc[p] = "await"
    /\ resp[p].kind = "none"
    /\ resp' = [resp EXCEPT ![p] = [kind |-> "err", tok |-> NoToken, expires_in |-> 0]]
    /\ UNCHANGED <<now, cachedToken, tokenExpiry, pc, sentAt, ret, nextTok, exchanges, issued>>
    /\ UNCHANGED tokFrame

\* The awaited response arrives within the timeout: store and return it.
GenTokenStore(p) ==
    /\ pc[p] = "await"
    /\ resp[p].kind = "ok"
    /\ now - sentAt[p] < TokenTimeout
    /\ StoreToken(resp[p])
    /\ pc' = [pc EXCEPT ![p] = "done"]
    /\ ret' = [ret EXCEPT ![p] = [kind |-> "token", tok |-> cachedToken',
                                    cached |-> FALSE, at |-> now]]
    /\ issued' = issued \cup {[tok |-> resp[p].tok,
                               expiry |-> now + (resp[p].expires_in * MsPerSecond)]}
    /\ resp' = [resp EXCEPT ![p] = NoResp]
    /\ sentAt' = [sentAt EXCEPT ![p] = 0]
    /\ UNCHANGED <<now, nextTok, exchanges>>
    /\ UNCHANGED tokFrame

\* Mutant of GenTokenFail: the failed call returns what the cache holds.
GenTokenFailReturnsCache(p) ==
    /\ pc[p] = "await"
    /\ \/ resp[p].kind = "err"
       \/ now - sentAt[p] >= TokenTimeout
       \/ resp[p].kind = "none"
    /\ pc' = [pc EXCEPT ![p] = IF cachedToken # NoToken THEN "done" ELSE "failed"]
    /\ ret' = [ret EXCEPT ![p] = IF cachedToken # NoToken
                                  THEN [kind |-> "token", tok |-> cachedToken,
                                        cached |-> TRUE, at |-> now]
                                  ELSE [kind |-> "error", tok |-> NoToken,
                                        cached |-> FALSE, at |-> now]]
    /\ resp' = [resp EXCEPT ![p] = NoResp]
    /\ sentAt' = [sentAt EXCEPT ![p] = 0]
    /\ UNCHANGED <<now, cachedToken, tokenExpiry, nextTok, exchanges, issued>>
    /\ UNCHANGED tokFrame

\* catch: an error response, a network failure or the timeout; the call throws
\* 'Failed to generate PayPal access token'.
GenTokenFail(p) ==
    /\ pc[p] = "await"
    /\ \/ resp[p].kind = "err"
       \/ now - sentAt[p] >= TokenTimeout
       \/ resp[p].kind = "none"
    /\ pc' = [pc EXCEPT ![p] = "failed"]
    /\ ret' = [ret EXCEPT ![p] = [kind |-> "error", tok |-> NoToken,
                                    cached |-> FALSE, at |-> now]]
    /\ resp' = [resp EXCEPT ![p] = NoResp]
    /\ sentAt' = [sentAt EXCEPT ![p] = 0]
    /\ UNCHANGED <<now, cachedToken, tokenExpiry, nextTok, exchanges, issued>>
    /\ UNCHANGED tokFrame

Tick(t) ==
    /\ t > now
    /\ now' = t
    /\ UNCHANGED <<cachedToken, tokenExpiry, pc, resp, sentAt, ret, nextTok, exchanges, issued>>
    /\ UNCHANGED tokFrame

TokInit ==
    /\ now = 0
    /\ cachedToken = NoToken
    /\ tokenExpiry = NoExpiry
    /\ pc = [p \in Callers |-> "idle"]
    /\ resp = [p \in Callers |-> NoResp]
    /\ sentAt = [p \in Callers |-> 0]
    /\ ret = [p \in Callers |-> NoRet]
    /\ nextTok = 1
    /\ exchanges = 0
    /\ issued = {}

-----------------------------------------------------------------------------
(* The cached access token: claims *)

\* The reuse window of the claim: a token is cached and the clock is more
\* than five minutes before its expiry.
InReuseWindow ==
    /\ cachedToken # NoToken
    /\ tokenExpiry # NoExpiry
    /\ now < tokenExpiry - SafetyMargin

\* Caller p begins a call in this step.
BeginsCall(p) ==
    /\ pc[p] \in {"idle", "done", "failed"}
    /\ (pc'[p] # pc[p] \/ ret'[p] # ret[p])

\* C1: a call made inside the reuse window sends no exchange request and
\* returns the cached token; a call made outside it sends exactly one
\* exchange request, and when that exchange succeeds the cache holds the
\* token of the response and the expiry computed from it.
C1_TokenCaching ==
    [][\A p \in Callers :
        /\ (BeginsCall(p) /\ InReuseWindow) =>
              /\ exchanges' = exchanges
              /\ pc'[p] = "done"
              /\ ret'[p] = [kind |-> "token", tok |-> cachedToken,
                            cached |-> TRUE, at |-> now]
              /\ cachedToken' = cachedToken /\ tokenExpiry' = tokenExpiry
        /\ (BeginsCall(p) /\ ~InReuseWindow) =>
              /\ exchanges' = exchanges + 1
              /\ pc'[p] = "await"
        /\ (pc[p] = "await" /\ pc'[p] # "await") => exchanges' = exchanges
        /\ (pc[p] = "await" /\ pc'[p] = "done") =>
              /\ resp[p].kind = "ok"
              /\ ret'[p].kind = "token" /\ ret'[p].tok = resp[p].tok
              /\ cachedToken' = resp[p].tok
              /\ tokenExpiry' = now + (resp[p].expires_in * MsPerSecond)
      ]_vars

\* C1 witness: a call has refreshed the token after an earlier token's reuse
\* window had passed, and the cache holds the new token.
C1_Witness ==
    \E p \in Callers, r \in issued :
        /\ ret[p].kind = "token" /\ ~ret[p].cached
        /\ r.tok # ret[p].tok
        /\ ret[p].at >= r.expiry - SafetyMargin
        /\ cachedToken = ret[p].tok

\* C2: at most one token exchange request is in flight at any time.
C2_AtMostOneExchangeInFlight ==
    Cardinality({p \in Callers : pc[p] = "await"}) <= 1

\* The expiry the service computed for token t when it stored it.
ExpiryOf(t) == (CHOOSE r \in issued : r.tok = t).expiry

\* C4: a token returned from the cache was returned more than five minutes
\* before the expiry of that token.
C4_CachedTokenInsideMargin ==
    \A p \in Callers :
        (ret[p].kind = "token" /\ ret[p].cached) =>
            /\ \E r \in issued : r.tok = ret[p].tok
            /\ ret[p].at < ExpiryOf(ret[p].tok) - SafetyMargin

\* C4 witness: a caller got a token from the cache while another exchange
\* stored a different token later.
C4_Witness ==
    \E p \in Callers :
        /\ ret[p].kind = "token" /\ ret[p].cached
        /\ ret[p].at > 0
        /\ Cardinality(issued) >= 2

\* C5: the cached token and its expiry are both unset or both from one
\* exchange response, and a refreshing caller returns the token of an
\* exchange whose response was processed.
C5_TokenAndExpiryTogether ==
    /\ \/ (cachedToken = NoToken /\ tokenExpiry = NoExpiry)
       \/ [tok |-> cachedToken, expiry |-> tokenExpiry] \in issued
    /\ \A p \in Callers :
          (ret[p].kind = "token" /\ ~ret[p].cached) =>
              \E r \in issued : r.tok = ret[p].tok

\* C5 witness: two exchanges overlapped and both responses were stored.
C5_Witness ==
    /\ Cardinality(issued) >= 2
    /\ \A p \in Callers : ret[p].kind = "token" /\ ~ret[p].cached
    /\ ret[1].at = ret[2].at

\* The exchange of caller p ends in this step without a response that
\* arrived in time with a token.
ExchangeFails(p) ==
    /\ pc[p] = "await" /\ pc'[p] # "await"
    /\ ~(resp[p].kind = "ok" /\ now - sentAt[p] < TokenTimeout)

\* C26: the step in which a token exchange fails leaves cachedToken and
\* tokenExpiry as they were, and the call ends with an error and no token,
\* whatever the cache holds.
C26_FailedExchangeKeepsCache ==
    [][\A p \in Callers :
           ExchangeFails(p) =>
               /\ cachedToken' = cachedToken /\ tokenExpiry' = tokenExpiry
               /\ pc'[p] = "failed"
               /\ ret'[p].kind = "error" /\ ret'[p].tok = NoToken]_vars

\* C26 witness: a call failed while the cache held an older token outside
\* its reuse window, and the cache still holds it.
C26_Witness ==
    \E p \in Callers :
        /\ pc[p] = "failed" /\ ret[p].kind = "error"
        /\ cachedToken # NoToken /\ ~CacheValid
        /\ [tok |-> cachedToken, expiry |-> tokenExpiry] \in issued

-----------------------------------------------------------------------------
(* The PayPal-Request-Id of order creation *)

\* Values of Math.floor(Math.random() * 1000) the model draws.
RandomDraws == {0, 1, RandomRange - 1}

\* The provider's idempotency contract: a request whose key the provider has
\* seen from this service is answered with the order of the first request;
\* any other request creates a new order.
OrderFor(svc, key) ==
    IF \E i \in 1..Len(creates) : creates[i].svc = svc /\ creates[i].key = key
    THEN creates[CHOOSE i \in 1..Len(creates) :
                    creates[i].svc = svc /\ creates[i].key = key].orderID
    ELSE Len(creates) + 1

\* The order creation request reaches the provider and is answered 2xx.
SendCreate(svc, fn, key) ==
    /\ Len(creates) < MaxCreates
    /\ creates' = Append(creates, [svc |-> svc, fn |-> fn, key |-> key,
                                   orderID |-> OrderFor(svc, key)])
    /\ provider' = [provider EXCEPT ![OrderFor(svc, key)] =
                        IF @ = "UNKNOWN" THEN "CREATED" ELSE @]

\* src/services/paypal.js createOrder:
\*   'PayPal-Request-Id': `order-${Date.now()}-${Math.floor(Math.random() * 1000)}`
SvcCreateOrder(r) ==
    /\ service = "services/paypal.js"
    /\ SendCreate("services/paypal.js", "createOrder", <<"order", now, r>>)
    /\ UNCHANGED <<tokVars, uuids, idFrame>>

\* src/services/paypal.js createCardOrder: the same key format
SvcCreateCardOrder(r) ==
    /\ service = "services/paypal.js"
    /\ SendCreate("services/paypal.js", "createCardOrder", <<"order", now, r>>)
    /\ UNCHANGED <<tokVars, uuids, idFrame>>

\* src/unnamed/part_003 createOrder: 'PayPal-Request-Id': `order-${Date.now()}`
P3CreateOrder ==
    /\ service = "part_003"
    /\ SendCreate("part_003", "createOrder", <<"order", now>>)
    /\ UNCHANGED <<tokVars, uuids, idFrame>>

\* src/unnamed/part_003 createCardOrder: 'PayPal-Request-Id': `card-${Date.now()}`
P3CreateCardOrder ==
    /\ service = "part_003"
    /\ SendCreate("part_003", "createCardOrder", <<"card", now>>)
    /\ UNCHANGED <<tokVars, uuids, idFrame>>

\* src/index.js POST /api/paypal/create-order, answered 2xx by the provider:
\*   'PayPal-Request-Id': crypto.randomUUID()   (a value never drawn before)
\*   orders.set(response.data.id, order)
AdvStoreOrder ==
    /\ SendCreate("index.js", "create-order", <<"uuid", uuids + 1>>)
    /\ uuids' = uuids + 1
    /\ orders' = [orders EXCEPT ![OrderFor("index.js", <<"uuid", uuids + 1>>)] =
                      provider'[OrderFor("index.js", <<"uuid", uuids + 1>>)]]

\* The handler run from the request to its 2xx answer, its payload aside
AdvCreateOrder ==
    /\ service = "index.js"
    /\ AdvStoreOrder
    /\ UNCHANGED <<tokVars, transactions, hd, lastReply, service, payloadVars>>

\* A millisecond passes.
TickMs ==
    /\ now < MaxMs
    /\ now' = now + 1
    /\ UNCHANGED <<cachedToken, tokenExpiry, pc, resp, sentAt, ret, nextTok,
                   exchanges, issued>>
    /\ UNCHANGED tokFrame

\* Order ids: the provider names the orders 1, 2, ...; one more id is never
\* created.
OrderIds == 1..(MaxCreates + 1)

IdIdle ==
    /\ creates = <<>>
    /\ uuids = 0
    /\ provider = [id \in OrderIds |-> "UNKNOWN"]
    /\ orders = [id \in OrderIds |-> "absent"]

\* C3: any two order creation calls of a service send different
\* PayPal-Request-Id values and are answered with two distinct orders.
C3_RequestIdsDiffer ==
    \A i, j \in 1..Len(creates) :
        (i # j /\ creates[i].svc = creates[j].svc) =>
            /\ creates[i].key # creates[j].key
            /\ creates[i].orderID # creates[j].orderID

SpecIdsNext ==
    \/ P3CreateOrder
    \/ P3CreateCardOrder
    \/ \E r \in RandomDraws : SvcCreateOrder(r)
    \/ \E r \in RandomDraws : SvcCreateCardOrder(r)
    \/ AdvCreateOrder
    \/ TickMs

-----------------------------------------------------------------------------
(* The capture handlers *)

NoHandler == [route |-> "none", orderID |-> 0, stage |-> "free", bearerOk |-> TRUE,
              res |-> "none"]

NoReply == [route |-> "none", orderID |-> 0, http |-> 0, success |-> "none",
            body |-> "none", answer |-> "none"]

\* Handler p sends its response: res.status(code).json(...) ends the request.
Reply(p, code, success, body) ==
    /\ lastReply' = [route |-> hd[p].route, orderID |-> hd[p].orderID,
                     http |-> code, success |-> success, body |-> body,
                     answer |-> hd[p].res]
    /\ hd' = [hd EXCEPT ![p] = NoHandler]

\* The provider's answers to POST /v2/checkout/orders/{id}/capture: an error
\* response for a bad bearer token (401), an unknown order (404), an order
\* that is not approved or already captured (422); for an approved order a
\* 2xx response whose status is COMPLETED or another status.
CaptureAnswers(id, bearerOk) ==
    IF ~bearerOk THEN {"HTTP401"}
    ELSE IF provider[id] = "UNKNOWN" THEN {"HTTP404"}
    ELSE IF provider[id] = "APPROVED" THEN {"COMPLETED", "OTHER"}
    ELSE {"HTTP422"}

IsErrorAnswer(r) == r \in {"HTTP401", "HTTP404", "HTTP422"}

\* The payer approves an order at the provider.
PayerApproves(id) ==
    /\ provider[id] = "CREATED"
    /\ provider' = [provider EXCEPT ![id] = "APPROVED"]
    /\ UNCHANGED <<tokVars, creates, uuids, orders, transactions, hd, lastReply, service, payloadVars>>

\* The capture request of handler p is answered by the provider, or fails in
\* the network (as does a body that is not JSON, for the fetch-based backend).
ProviderCapture(p, r) ==
    /\ hd[p].stage = "sent"
    /\ r \in CaptureAnswers(hd[p].orderID, hd[p].bearerOk) \cup {"NETERR"}
    /\ hd' = [hd EXCEPT ![p].stage = "answered", ![p].res = r]
    /\ provider' = IF r = "COMPLETED"
                   THEN [provider EXCEPT ![hd[p].orderID] = "COMPLETED"]
                   ELSE provider
    /\ UNCHANGED <<tokVars, creates, uuids, orders, transactions, lastReply, service, payloadVars>>

\* ---- src/index.js 380-478: POST /api/paypal/capture-order/:orderID

\* Mutant of AdvCaptureBegin: the orders map is not consulted.
AdvCaptureBeginUnchecked(p, id) ==
    /\ service = "index.js"
    /\ hd[p].stage = "free"
    /\ pc[p] = "idle"
    /\ hd' = [hd EXCEPT ![p] = [NoHandler EXCEPT !.route = "adv",
                                     !.orderID = id, !.stage = "token"]]
    /\ UNCHANGED lastReply
    /\ UNCHANGED <<tokVars, idVars, provider, orders, transactions, service, payloadVars>>

\* const storedOrder = orders.get(orderID); if (!storedOrder) return 404
AdvCaptureBegin(p, id) ==
    /\ service = "index.js"
    /\ hd[p].stage = "free"
    /\ pc[p] = "idle"
    /\ IF orders[id] = "absent"
       THEN /\ lastReply' = [route |-> "adv", orderID |-> id, http |-> 404,
                             success |-> "none", body |-> "error",
                             answer |-> "none"]
            /\ UNCHANGED hd
       ELSE /\ hd' = [hd EXCEPT ![p] = [NoHandler EXCEPT !.route = "adv",
                                            !.orderID = id, !.stage = "token"]]
            /\ UNCHANGED lastReply
    /\ UNCHANGED <<tokVars, idVars, provider, orders, transactions, service, payloadVars>>

\* const accessToken = await generateAccessToken();
AdvCaptureToken(p) ==
    /\ hd[p].route = "adv" /\ hd[p].stage = "token"
    /\ pc[p] = "idle"
    /\ (GenTokenCacheHit(p) \/ GenTokenRequest(p))

AdvCaptureTokenAnswer(p) ==
    /\ hd[p].route = "adv" /\ hd[p].stage = "token"
    /\ \/ \E e \in ExpiresIn : ProviderTokenOk(p, e)
       \/ ProviderTokenError(p)
       \/ GenTokenStore(p)
       \/ GenTokenFail(p)

\* the token call threw: catch, res.status(500)
AdvCaptureTokenFailed(p) ==
    /\ hd[p].route = "adv" /\ hd[p].stage = "token"
    /\ pc[p] = "failed"
    /\ pc' = [pc EXCEPT ![p] = "idle"]
    /\ ret' = [ret EXCEPT ![p] = NoRet]
    /\ Reply(p, 500, "none", "error")
    /\ UNCHANGED <<now, cachedToken, tokenExpiry, resp, sentAt, nextTok,
                   exchanges, issued>>
    /\ UNCHANGED <<idVars, provider, orders, transactions, service, payloadVars>>

\* const response = await axios({ method: 'POST', url: .../capture, ... })
AdvCaptureSend(p) ==
    /\ hd[p].route = "adv" /\ hd[p].stage = "token"
    /\ pc[p] = "done"
    /\ pc' = [pc EXCEPT ![p] = "idle"]
    /\ ret' = [ret EXCEPT ![p] = NoRet]
    /\ hd' = [hd EXCEPT ![p].stage = "sent"]
    /\ UNCHANGED <<now, cachedToken, tokenExpiry, resp, sentAt, nextTok,
                   exchanges, issued>>
    /\ UNCHANGED <<idVars, provider, orders, transactions, lastReply, service, payloadVars>>

\* Mutant of AdvCaptureFinish: the transaction is not recorded.
AdvCaptureFinishNoRecord(p) ==
    /\ hd[p].route = "adv" /\ hd[p].stage = "answered"
    /\ IF hd[p].res = "COMPLETED"
       THEN /\ orders' = [orders EXCEPT ![hd[p].orderID] = "COMPLETED"]
            /\ UNCHANGED transactions
            /\ Reply(p, 200, "true", "result")
       ELSE /\ UNCHANGED <<transactions, orders>>
            /\ IF hd[p].res = "OTHER"
               THEN Reply(p, 400, "false", "error")
               ELSE Reply(p, 500, "none", "error")
    /\ UNCHANGED <<tokVars, idVars, provider, service, payloadVars>>

\* Mutant of AdvCaptureFinish: every 2xx capture marks the order COMPLETED.
AdvCaptureFinishAnyStatus(p) ==
    /\ hd[p].route = "adv" /\ hd[p].stage = "answered"
    /\ IF hd[p].res \in {"COMPLETED", "OTHER"}
       THEN /\ transactions' = transactions \cup
                    {[transactionID |-> hd[p].orderID, orderID |-> hd[p].orderID]}
            /\ orders' = [orders EXCEPT ![hd[p].orderID] = "COMPLETED"]
            /\ Reply(p, 200, "true", "result")
       ELSE /\ UNCHANGED <<transactions, orders>>
            /\ Reply(p, 500, "none", "error")
    /\ UNCHANGED <<tokVars, idVars, provider, service, payloadVars>>

\* if (captureResult.status === 'COMPLETED') { transactions.set; orders.set;
\* res.json({success: true, ...}) } else res.status(400).json({success: false})
\* catch: res.status(500)
AdvCaptureFinish(p) ==
    /\ hd[p].route = "adv" /\ hd[p].stage = "answered"
    /\ IF hd[p].res = "COMPLETED"
       THEN /\ transactions' = transactions \cup
                    {[transactionID |-> hd[p].orderID, orderID |-> hd[p].orderID]}
            /\ orders' = [orders EXCEPT ![hd[p].orderID] = "COMPLETED"]
            /\ Reply(p, 200, "true", "result")
       ELSE /\ UNCHANGED <<transactions, orders>>
            /\ IF hd[p].res = "OTHER"
               THEN Reply(p, 400, "false", "error")
               ELSE Reply(p, 500, "none", "error")
    /\ UNCHANGED <<tokVars, idVars, provider, service, payloadVars>>

\* ---- src/index.js 55-75: POST /api/orders/:orderID/capture (checkout SDK)

\* const capture = await client.execute(request);
SdkCaptureBegin(p, id) ==
    /\ service = "index.js (sdk)"
    /\ hd[p].stage = "free"
    /\ pc[p] = "idle"
    /\ hd' = [hd EXCEPT ![p] = [NoHandler EXCEPT !.route = "sdk", !.orderID = id,
                                                 !.stage = "sent"]]
    /\ UNCHANGED <<tokVars, idVars, provider, orders, transactions, lastReply, service, payloadVars>>

\* res.json({ success: true, orderID, status });  catch: res.status(500)
SdkCaptureFinish(p) ==
    /\ hd[p].route = "sdk" /\ hd[p].stage = "answered"
    /\ IF hd[p].res \in {"COMPLETED", "OTHER"}
       THEN Reply(p, 200, "true", "result")
       ELSE Reply(p, 500, "none", "error")
    /\ UNCHANGED <<tokVars, idVars, provider, orders, transactions, service, payloadVars>>

\* ---- src/unnamed/part_006 59-79: POST /complete_order (node-fetch)

FetchCompleteBegin(p, id) ==
    /\ service = "part_006"
    /\ hd[p].stage = "free"
    /\ pc[p] = "idle"
    /\ hd' = [hd EXCEPT ![p] = [NoHandler EXCEPT !.route = "fetch", !.orderID = id,
                                                 !.stage = "token"]]
    /\ UNCHANGED <<tokVars, idVars, provider, orders, transactions, lastReply, service, payloadVars>>

\* get_access_token().then(access_token => { fetch(.../capture ...) })
\*   "ok":        the token endpoint answered with an access_token
\*   "undefined": it answered with an error body: json.access_token is undefined
\*   "reject":    the fetch or res.json() rejected: .catch, res.status(500)
FetchCompleteToken(p, outcome) ==
    /\ hd[p].route = "fetch" /\ hd[p].stage = "token"
    /\ IF outcome = "reject"
       THEN Reply(p, 500, "none", "error")
       ELSE /\ hd' = [hd EXCEPT ![p].stage = "sent",
                                ![p].bearerOk = (outcome = "ok")]
            /\ UNCHANGED lastReply
    /\ UNCHANGED <<tokVars, idVars, provider, orders, transactions, service, payloadVars>>

\* .then(res => res.json()).then(json => { res.send(json); })
\* node-fetch resolves for every HTTP status, so the provider's body is sent
\* with status 200; a rejection of the inner chain is caught by nothing.
FetchCompleteFinish(p) ==
    /\ hd[p].route = "fetch" /\ hd[p].stage = "answered"
    /\ IF hd[p].res = "NETERR"
       THEN /\ hd' = [hd EXCEPT ![p].stage = "hung"]
            /\ UNCHANGED lastReply
       ELSE Reply(p, 200, "none", "provider-json")
    /\ UNCHANGED <<tokVars, idVars, provider, orders, transactions, service, payloadVars>>

\* ---- src/server.js 107-163: POST /api/paypal/capture-order

\* const { orderID } = req.body;  (the requests modelled name an order)
SrvCaptureBegin(p, id) ==
    /\ service = "server.js"
    /\ hd[p].stage = "free"
    /\ pc[p] = "idle"
    /\ hd' = [hd EXCEPT ![p] = [NoHandler EXCEPT !.route = "srv", !.orderID = id,
                                                 !.stage = "token"]]
    /\ UNCHANGED <<tokVars, idVars, provider, orders, transactions, lastReply, service, payloadVars>>

\* const accessToken = await getPayPalAccessToken();  (src/server.js 25-44:
\* one exchange, not cached); then the capture request is sent, or the
\* token call threw: catch, res.status(500)
SrvCaptureToken(p, ok) ==
    /\ hd[p].route = "srv" /\ hd[p].stage = "token"
    /\ IF ok
       THEN /\ hd' = [hd EXCEPT ![p].stage = "sent"]
            /\ UNCHANGED lastReply
       ELSE Reply(p, 500, "false", "error")
    /\ UNCHANGED <<tokVars, idVars, provider, orders, transactions, service, payloadVars>>

\* if (captureData.status === 'COMPLETED') res.json({ success: true, ... })
\* else res.json({ success: false, error: 'Payment not completed', status })
\* catch: res.status(500).json({ success: false, ... })
SrvCaptureFinish(p) ==
    /\ hd[p].route = "srv" /\ hd[p].stage = "answered"
    /\ IF hd[p].res = "COMPLETED"
       THEN Reply(p, 200, "true", "result")
       ELSE IF hd[p].res = "OTHER"
            THEN Reply(p, 200, "false", "status")
            ELSE Reply(p, 500, "false", "error")
    /\ UNCHANGED <<tokVars, idVars, provider, orders, transactions, service, payloadVars>>

\* Orders created at the provider through the other services' create routes
\* (src/index.js 30-52, src/unnamed/part_006 23-54: no PayPal-Request-Id;
\* src/server.js 47-104: a key that is new for every request).
OtherCreateOrder ==
    /\ service # "index.js"
    /\ SendCreate(service, "create", <<"none", Len(creates)>>)
    /\ UNCHANGED <<tokVars, uuids, idFrame>>

CapIdle ==
    /\ transactions = {}
    /\ hd = [p \in Callers |-> NoHandler]
    /\ lastReply = NoReply

\* C6: a capture call for an order id the provider does not know ends in an
\* error response, never in a success result.
C6_UnknownOrderCaptureFails ==
    (lastReply.route # "none" /\ provider[lastReply.orderID] = "UNKNOWN") =>
        /\ lastReply.http >= 400
        /\ lastReply.success # "true"

\* A successful create-order call of the advanced service returned the id.
CreatedHere(id) ==
    \E i \in 1..Len(creates) : creates[i].svc = "index.js" /\ creates[i].orderID = id

\* Handler p of the advanced service got past the lookup of its order.
PastLookup(p) == hd[p].route = "adv" /\ hd[p].stage \in {"token", "sent", "answered"}

\* A capture call of the advanced service is answered 404 in this step.
Answers404 ==
    /\ lastReply' # lastReply
    /\ lastReply'.route = "adv"
    /\ lastReply'.http = 404

\* C22: in the advanced service a capture call goes on to the token and to
\* the provider only for an order id that an earlier successful create-order
\* call returned and stored; a call for any other id is answered 404, and
\* the step that answers 404 starts no token exchange and no provider call.
C22_CaptureOnlyForStoredOrder ==
    /\ [](\A p \in Callers :
            PastLookup(p) => (CreatedHere(hd[p].orderID) /\ orders[hd[p].orderID] # "absent"))
    /\ [][Answers404 => (/\ orders[lastReply'.orderID] = "absent"
                         /\ UNCHANGED <<tokVars, hd, provider>>)]_vars

\* C22 witness: a capture call for an id that was never stored was answered
\* 404, and the capture request for a stored order has been sent.
C22_Witness ==
    /\ lastReply.route = "adv" /\ lastReply.http = 404
    /\ orders[lastReply.orderID] = "absent"
    /\ \E p \in Callers : hd[p].route = "adv" /\ hd[p].stage = "sent"

\* C15: a capture request that the provider answers with a 2xx response, with
\* the status COMPLETED or with another status, is not answered with an HTTP
\* error status by the capture handler.
C15_NonCompletedIsNoError ==
    lastReply.answer \in {"COMPLETED", "OTHER"} => lastReply.http < 400

-----------------------------------------------------------------------------
(* The card expiry sent by createCardOrder.  Strings are sequences of       *)
(* one-character strings.                                                   *)

DigitChars == <<"0", "1", "2", "3", "4", "5", "6", "7", "8", "9">>

\* The decimal digits of n, without padding (String(n)).
RECURSIVE Decimal(_)
Decimal(n) ==
    IF n < 10 THEN <<DigitChars[n + 1]>>
    ELSE Decimal(n \div 10) \o <<DigitChars[(n % 10) + 1]>>

\* `${undefined}` in a template literal
UndefinedText == <<"u", "n", "d", "e", "f", "i", "n", "e", "d">>

\* String.prototype.split(sep) for a one-character separator
RECURSIVE Split(_, _)
Split(str, sep) ==
    IF \A i \in 1..Len(str) : str[i] # sep
    THEN <<str>>
    ELSE LET i == CHOOSE k \in 1..Len(str) :
                      str[k] = sep /\ \A j \in 1..(k - 1) : str[j] # sep
         IN  <<SubSeq(str, 1, i - 1)>> \o Split(SubSeq(str, i + 1, Len(str)), sep)

\* String.prototype.padStart(n, fill) for a one-character fill
PadStart(str, n, fill) ==
    IF Len(str) >= n THEN str
    ELSE [i \in 1..(n - Len(str)) |-> fill] \o str

\* const [expMonth, expYear] = cardDetails.expiry ? cardDetails.expiry.split('/') : ['', ''];
ExpiryParts(details) ==
    LET parts == IF details.expiry # <<>> THEN Split(details.expiry, "/")
                 ELSE << <<>>, <<>> >>
    IN  [expMonth |-> parts[1],
         expYear |-> IF Len(parts) >= 2 THEN parts[2] ELSE UndefinedText]

\* const paddedMonth = expMonth.padStart(2, '0');  expiry: `20${expYear}-${paddedMonth}`
PaddedExpiry(details) ==
    LET p == ExpiryParts(details)
    IN  <<"2", "0">> \o p.expYear \o <<"-">> \o PadStart(p.expMonth, 2, "0")

\* expiry: `20${expYear}-${expMonth}`
PlainExpiry(details) ==
    LET p == ExpiryParts(details)
    IN  <<"2", "0">> \o p.expYear \o <<"-">> \o p.expMonth

CardVariants == {"services/paypal.js", "part_001", "part_002", "part_003", "part_004"}

Unsent == <<>>

SendExpiry(variant, text) ==
    /\ sentExpiry[variant] = Unsent
    /\ sentExpiry' = [sentExpiry EXCEPT ![variant] = text]
    /\ UNCHANGED <<cardDetails, cardDate, amtVars, refVars, restVars, tokVars, idVars, capVars, service>>

\* src/services/paypal.js 129-158
SvcCardExpiry == SendExpiry("services/paypal.js", PaddedExpiry(cardDetails))

\* src/unnamed/part_002 260-289
P2CardExpiry == SendExpiry("part_002", PaddedExpiry(cardDetails))

\* src/unnamed/part_003 198-222
P3CardExpiry == SendExpiry("part_003", PaddedExpiry(cardDetails))

\* src/unnamed/part_004 124-139 (sent to /v2/vault/payment-tokens)
P4CardExpiry == SendExpiry("part_004", PlainExpiry(cardDetails))

\* src/unnamed/part_001 37-52 (sent to /v2/vault/payment-tokens)
P1CardExpiry == SendExpiry("part_001", PlainExpiry(cardDetails))

\* The caller's card expiries: M/YY or MM/YY, month 1..12.
CardYears == {25, 26, 30}

ExpiryText(month, year, padded) ==
    (IF padded /\ month < 10 THEN <<"0">> ELSE <<>>)
        \o Decimal(month) \o <<"/">> \o Decimal(year)

CardIdle ==
    /\ cardDetails = [expiry |-> <<>>]
    /\ cardDate = [month |-> 0, year |-> 0]
    /\ sentExpiry = [v \in CardVariants |-> Unsent]

SpecCardNext ==
    \/ SvcCardExpiry
    \/ P1CardExpiry
    \/ P2CardExpiry
    \/ P3CardExpiry
    \/ P4CardExpiry

\* The month as two digits
TwoDigits(n) == <<DigitChars[(n \div 10) + 1], DigitChars[(n % 10) + 1]>>

\* C7: every createCardOrder variant sends the expiry 20YY-MM with the month
\* zero-padded to two digits.
C7_ExpiryNormalized ==
    \A v \in CardVariants :
        sentExpiry[v] # Unsent =>
            sentExpiry[v] = <<"2", "0">> \o TwoDigits(cardDate.year) \o <<"-">>
                                \o TwoDigits(cardDate.month)

-----------------------------------------------------------------------------
(* The order amount of create-order.  A JavaScript number n is modelled by  *)
(* the integer Milli * n: the amounts handled here have at most three       *)
(* decimals and less than 2^53 / Milli units, so that the arithmetic of     *)
(* doubles followed by toFixed(2) gives what this arithmetic gives.         *)

Milli == 1000

IsDigit(c) == \E i \in 1..Len(DigitChars) : DigitChars[i] = c

DigitValue(c) == (CHOOSE i \in 1..Len(DigitChars) : DigitChars[i] = c) - 1

\* The longest prefix of str made of digits
RECURSIVE LeadingDigits(_)
LeadingDigits(str) ==
    IF str = <<>> \/ ~IsDigit(Head(str)) THEN <<>>
    ELSE <<Head(str)>> \o LeadingDigits(Tail(str))

RECURSIVE DigitsValue(_)
DigitsValue(ds) ==
    IF ds = <<>> THEN 0
    ELSE 10 * DigitsValue(SubSeq(ds, 1, Len(ds) - 1)) + DigitValue(ds[Len(ds)])

\* parseInt(x): the integer written by the leading digits of String(x)
ParseInt(str) == DigitsValue(LeadingDigits(str))

\* String.prototype.padEnd(n, fill) for a one-character fill
PadEnd(str, n, fill) ==
    IF Len(str) >= n THEN str
    ELSE str \o [i \in 1..(n - Len(str)) |-> fill]

Unsigned(str) == IF str # <<>> /\ Head(str) = "-" THEN Tail(str) ELSE str

IntegerDigits(str) == LeadingDigits(Unsigned(str))

FractionDigits(str) ==
    LET rest == SubSeq(Unsigned(str), Len(IntegerDigits(str)) + 1, Len(Unsigned(str)))
    IN  IF rest # <<>> /\ Head(rest) = "." THEN LeadingDigits(Tail(rest)) ELSE <<>>

\* isNaN(parseFloat(x)): String(x) does not begin with a decimal literal
IsNaNFloat(str) == IntegerDigits(str) = <<>> /\ FractionDigits(str) = <<>>

\* parseFloat(x): the number written at the beginning of String(x)
ParseFloat(str) ==
    LET frac == FractionDigits(str)
        kept == IF Len(frac) > 3 THEN SubSeq(frac, 1, 3) ELSE frac
        mag == Milli * DigitsValue(IntegerDigits(str))
                   + DigitsValue(PadEnd(kept, 3, "0"))
    IN  IF str # <<>> /\ Head(str) = "-" THEN 0 - mag ELSE mag

Abs(n) == IF n < 0 THEN 0 - n ELSE n

\* Number.prototype.toFixed(2): rounded to the nearest hundredth
ToFixed2(m) ==
    LET hundredths == (Abs(m) + 5) \div 10
    IN  (IF m < 0 THEN <<"-">> ELSE <<>>)
            \o Decimal(hundredths \div 100) \o <<".">>
            \o PadStart(Decimal(hundredths % 100), 2, "0")

\* a * b of two JavaScript numbers
Times(a, b) == (a * b) \div Milli

\* A field of the request body: given with a value, or absent (undefined)
Given(text) == [given |-> TRUE, text |-> text]
Absent == [given |-> FALSE, text |-> <<>>]

\* const { field = dflt } = orderData
Default(field, dflt) == IF field.given THEN field.text ELSE dflt

\* String(0), the default of tax, handling, insurance and the discounts
ZeroText == <<"0">>

\* const { items = [] } = orderData
AdvItems(data) == IF data.items.given THEN data.items.list ELSE <<>>

\* items.reduce((sum, item) =>
\*     sum + (parseFloat(item.unit_amount.value) * parseInt(item.quantity)), 0)
RECURSIVE ItemTotal(_)
ItemTotal(items) ==
    IF items = <<>> THEN 0
    ELSE ItemTotal(SubSeq(items, 1, Len(items) - 1))
             + ParseFloat(items[Len(items)].unit_amount.value)
                   * ParseInt(items[Len(items)].quantity)

\* Mutant of TotalAmount: the discounts are added.
TotalAmountDiscountsAdded(data) ==
    ItemTotal(AdvItems(data))
        + ParseFloat(Default(data.tax, ZeroText))
        + ParseFloat(Default(data.handling, ZeroText))
        + ParseFloat(Default(data.insurance, ZeroText))
        + ParseFloat(Default(data.discount, ZeroText))
        + ParseFloat(Default(data.shipping_discount, ZeroText))

\* const totalAmount = itemTotal + parseFloat(tax) + parseFloat(handling)
\*     + parseFloat(insurance) - parseFloat(discount) - parseFloat(shipping_discount);
TotalAmount(data) ==
    ItemTotal(AdvItems(data))
        + ParseFloat(Default(data.tax, ZeroText))
        + ParseFloat(Default(data.handling, ZeroText))
        + ParseFloat(Default(data.insurance, ZeroText))
        - ParseFloat(Default(data.discount, ZeroText))
        - ParseFloat(Default(data.shipping_discount, ZeroText))

\* ...(tax > 0 && { tax_total: { currency_code, value: parseFloat(tax).toFixed(2) } })
\* and likewise for handling, insurance, discount and shipping_discount; the
\* comparison converts a decimal literal to the number parseFloat gives.
Component(text) ==
    IF ParseFloat(text) > 0
    THEN [present |-> TRUE, value |-> ToFixed2(ParseFloat(text))]
    ELSE [present |-> FALSE, value |-> <<>>]

\* purchase_units[0].amount.breakdown: item_total is always written.
Breakdown(data) ==
    [item_total |-> [present |-> TRUE, value |-> ToFixed2(ItemTotal(AdvItems(data)))],
     tax_total |-> Component(Default(data.tax, ZeroText)),
     handling |-> Component(Default(data.handling, ZeroText)),
     insurance |-> Component(Default(data.insurance, ZeroText)),
     discount |-> Component(Default(data.discount, ZeroText)),
     shipping_discount |-> Component(Default(data.shipping_discount, ZeroText))]

\* purchase_units[0].amount of the advanced create-order handler
AdvPayload(data) ==
    [svc |-> "index.js",
     value |-> ToFixed2(TotalAmount(data)),
     item_total |-> ToFixed2(ItemTotal(AdvItems(data))),
     breakdown |-> Breakdown(data)]

UsdText == <<"U", "S", "D">>
EurText == <<"E", "U", "R">>

\* ['USD', 'EUR', 'GBP', 'CAD', 'AUD', 'JPY']
SupportedCurrencies ==
    {UsdText, EurText, <<"G", "B", "P">>, <<"C", "A", "D">>, <<"A", "U", "D">>,
     <<"J", "P", "Y">>}

\* The truthiness of a field: undefined, null and '' are falsy; an array is
\* truthy, also the empty one.
FieldTruthy(field) == field.given /\ field.text # <<>>
ItemsTruthy(items) == items.given /\ items.type \in {"array", "string"}

\* validateOrderCreation(data): each check throws.
\*   if (!amount || isNaN(parseFloat(amount)) || parseFloat(amount) <= 0)
\*   if (currency && ![...].includes(currency))
\*   if (items && !Array.isArray(items))
ValidOrderCreation(data) ==
    /\ FieldTruthy(data.amount)
    /\ ~IsNaNFloat(data.amount.text)
    /\ ParseFloat(data.amount.text) > 0
    /\ ~(FieldTruthy(data.currency) /\ data.currency.text \notin SupportedCurrencies)
    /\ ~(ItemsTruthy(data.items) /\ data.items.type # "array")

\* ---- src/unnamed/part_002 createOrder(options)

TenText == <<"1", "0", ".", "0", "0">>

\* items = [{ ..., quantity: 1, unit_amount: { currency_code: 'USD', value: '10.00' } }]
P2DefaultItems == << [unit_amount |-> [value |-> TenText], quantity |-> <<"1">>] >>

\* items.reduce((sum, item) => sum + parseFloat(item.unit_amount.value) * item.quantity, 0)
RECURSIVE P2ItemSum(_)
P2ItemSum(items) ==
    IF items = <<>> THEN 0
    ELSE P2ItemSum(SubSeq(items, 1, Len(items) - 1))
             + Times(ParseFloat(items[Len(items)].unit_amount.value),
                     ParseFloat(items[Len(items)].quantity))

\* const finalAmount = itemTotal > 0 ? itemTotal : amount;
P2FinalAmount(options) ==
    LET items == IF options.items.given THEN options.items.list ELSE P2DefaultItems
        itemTotal == ToFixed2(P2ItemSum(items))
    IN  IF ParseFloat(itemTotal) > 0 THEN itemTotal
        ELSE Default(options.amount, TenText)

P2Payload(options) ==
    [svc |-> "part_002",
     value |-> P2FinalAmount(options),
     item_total |-> P2FinalAmount(options)]

\* ---- the handlers

NoCreate == [stage |-> "free", caller |-> 0, http |-> 0]

NoOrder == [svc |-> "none", value |-> <<>>, item_total |-> <<>>]

\* src/index.js 203-206: validateOrderCreation(orderData) throws into the
\* catch (500), or the handler goes on to the token.
AdvCreateBegin(p) ==
    /\ service = "index.js"
    /\ cr.stage = "free"
    /\ pc[p] = "idle"
    /\ cr' = IF ValidOrderCreation(orderData)
             THEN [stage |-> "token", caller |-> p, http |-> 0]
             ELSE [stage |-> "free", caller |-> p, http |-> 500]
    /\ UNCHANGED <<orderNums, orderData, sentOrder, cardVars, refVars, restVars, tokVars, idVars,
                   capVars, service>>

\* const accessToken = await generateAccessToken();
AdvCreateToken(p) ==
    /\ cr.stage = "token" /\ cr.caller = p
    /\ pc[p] = "idle"
    /\ (GenTokenCacheHit(p) \/ GenTokenRequest(p))

AdvCreateTokenAnswer(p) ==
    /\ cr.stage = "token" /\ cr.caller = p
    /\ \/ \E e \in ExpiresIn : ProviderTokenOk(p, e)
       \/ ProviderTokenError(p)
       \/ GenTokenStore(p)
       \/ GenTokenFail(p)

\* Mutant of AdvCreateTokenFailed: the handler asks for the token again.
AdvCreateTokenRetried(p) ==
    /\ cr.stage = "token" /\ cr.caller = p
    /\ pc[p] = "failed"
    /\ pc' = [pc EXCEPT ![p] = "idle"]
    /\ ret' = [ret EXCEPT ![p] = NoRet]
    /\ UNCHANGED <<now, cachedToken, tokenExpiry, resp, sentAt, nextTok,
                   exchanges, issued>>
    /\ UNCHANGED <<amtVars, cardVars, refVars, restVars, idVars, capVars, service>>

\* the token call threw: catch, res.status(500)
AdvCreateTokenFailed(p) ==
    /\ cr.stage = "token" /\ cr.caller = p
    /\ pc[p] = "failed"
    /\ pc' = [pc EXCEPT ![p] = "idle"]
    /\ ret' = [ret EXCEPT ![p] = NoRet]
    /\ cr' = [stage |-> "free", caller |-> p, http |-> 500]
    /\ UNCHANGED <<now, cachedToken, tokenExpiry, resp, sentAt, nextTok,
                   exchanges, issued>>
    /\ UNCHANGED <<orderNums, orderData, sentOrder, cardVars, refVars, restVars, idVars, capVars, service>>

\* src/index.js 230-346: the totals, the purchase unit, and the request
\* const response = await axios({ method: 'POST', url: .../v2/checkout/orders, ... })
AdvCreateSend(p) ==
    /\ cr.stage = "token" /\ cr.caller = p
    /\ pc[p] = "done"
    /\ pc' = [pc EXCEPT ![p] = "idle"]
    /\ ret' = [ret EXCEPT ![p] = NoRet]
    /\ IF orderData.items.given /\ orderData.items.type # "array"
       THEN \* items.reduce is not a function: TypeError, catch, res.status(500)
            /\ cr' = [stage |-> "free", caller |-> p, http |-> 500]
            /\ UNCHANGED sentOrder
       ELSE /\ sentOrder' = AdvPayload(orderData)
            /\ cr' = [cr EXCEPT !.stage = "sent"]
    /\ UNCHANGED <<now, cachedToken, tokenExpiry, resp, sentAt, nextTok,
                   exchanges, issued>>
    /\ UNCHANGED <<orderNums, orderData, cardVars, refVars, restVars, idVars, capVars, service>>

\* src/index.js 348-376: a 2xx answer is stored and relayed (res.json); an
\* error answer, a network failure or the 30 s timeout goes to the catch (500).
AdvCreateFinish(p, answered) ==
    /\ cr.stage = "sent" /\ cr.caller = p
    /\ IF answered
       THEN /\ AdvStoreOrder
            /\ cr' = [stage |-> "free", caller |-> p, http |-> 200]
       ELSE /\ cr' = [stage |-> "free", caller |-> p, http |-> 500]
            /\ UNCHANGED <<idVars, provider, orders>>
    /\ UNCHANGED <<orderNums, orderData, sentOrder, cardVars, refVars, restVars, tokVars,
                   transactions, hd, lastReply, service>>

\* src/unnamed/part_002 17-91: the token call rejects and nothing is sent, or
\* the order is sent and the provider's answer is awaited.
P2CreateOrder(outcome) ==
    /\ service = "part_002"
    /\ cr.stage = "free"
    /\ IF outcome = "no token"
       THEN /\ cr' = [stage |-> "free", caller |-> 0, http |-> 500]
            /\ UNCHANGED sentOrder
       ELSE /\ sentOrder' = P2Payload(orderData)
            /\ cr' = [stage |-> "free", caller |-> 0,
                      http |-> IF outcome = "answered" THEN 200 ELSE 500]
    /\ UNCHANGED <<orderNums, orderData, cardVars, refVars, restVars, tokVars, idVars, capVars, service>>

\* ---- the requests

\* The hundredths n as the caller writes them: a string with two decimals
\* ('1.50'), or a JSON number, which String() writes without trailing zeros.
Money(n) ==
    (IF n < 0 THEN <<"-">> ELSE <<>>)
        \o Decimal(Abs(n) \div 100) \o <<".">> \o TwoDigits(Abs(n) % 100)

NumberText(n) ==
    LET a == Abs(n)
    IN  (IF n < 0 THEN <<"-">> ELSE <<>>)
            \o (IF a % 100 = 0 THEN Decimal(a \div 100)
                ELSE IF a % 10 = 0
                     THEN Decimal(a \div 100) \o <<".">> \o Decimal((a % 100) \div 10)
                     ELSE Decimal(a \div 100) \o <<".">> \o TwoDigits(a % 100))

Forms == {"string", "number"}

Written(n, form) == IF form = "string" THEN Money(n) ELSE NumberText(n)

\* Prices and charges are in hundredths.
MaxItems == 2
Prices == {150, 300}
Quantities == {1, 2}
CallerAmounts == {0, 2500}

ItemLists == UNION {[1..n -> [price : Prices, quantity : Quantities]] : n \in 0..MaxItems}

NoCharges == [tax |-> 0, handling |-> 0, insurance |-> 0, discount |-> 0,
              shipping_discount |-> 0]

Charges == {NoCharges,
            [NoCharges EXCEPT !.tax = 45],
            [NoCharges EXCEPT !.handling = 100, !.insurance = 50],
            [NoCharges EXCEPT !.discount = 25, !.shipping_discount = 10],
            [NoCharges EXCEPT !.tax = -45],
            [tax |-> 45, handling |-> 100, insurance |-> 50, discount |-> 25,
             shipping_discount |-> 10]}

NoNums == [hasAmount |-> FALSE, amount |-> 0, hasItems |-> FALSE, items |-> <<>>,
           charges |-> NoCharges, form |-> "string", defect |-> "none"]

\* A request of 25.00 without items or charges, and what can be wrong with it
\* beyond an amount that is missing or zero: the amount 'abc', '12abc' or
\* '-5.00', the currency 'XYZ', items that are a string or null.
PlainNums == [NoNums EXCEPT !.hasAmount = TRUE, !.amount = 2500]

Defects == {"amount abc", "amount 12abc", "amount negative", "currency XYZ",
            "items string", "items null"}

\* What the caller means to order through service svc; createOrder of
\* part_002 takes no charges.
OrderRequests(svc) ==
    {r \in [hasAmount : BOOLEAN, amount : CallerAmounts, hasItems : BOOLEAN,
            items : ItemLists, charges : Charges, form : Forms,
            defect : {"none"}] :
        /\ ~r.hasAmount => r.amount = 0
        /\ ~r.hasItems => r.items = <<>>
        /\ svc = "part_002" => r.charges = NoCharges}
    \cup (IF svc = "index.js"
          THEN {[PlainNums EXCEPT !.defect = d] : d \in Defects}
          ELSE {})

Charge(n, form) == IF n = 0 THEN Absent ELSE Given(Written(n, form))

\* req.body (options, for part_002) of the request
Body(nums) ==
    [amount |-> CASE nums.defect = "amount abc" -> Given(<<"a", "b", "c">>)
                  [] nums.defect = "amount 12abc" -> Given(<<"1", "2", "a", "b", "c">>)
                  [] nums.defect = "amount negative" -> Given(<<"-", "5", ".", "0", "0">>)
                  [] OTHER -> IF nums.hasAmount
                              THEN Given(Written(nums.amount, nums.form)) ELSE Absent,
     currency |-> IF nums.defect = "currency XYZ" THEN Given(<<"X", "Y", "Z">>)
                  ELSE Absent,
     items |-> [given |-> nums.hasItems \/ nums.defect \in {"items string", "items null"},
                type |-> CASE nums.defect = "items string" -> "string"
                           [] nums.defect = "items null" -> "null"
                           [] OTHER -> IF nums.hasItems THEN "array" ELSE "undefined",
                list |-> [i \in 1..Len(nums.items) |->
                             [unit_amount |-> [value |-> Written(nums.items[i].price, nums.form)],
                              quantity |-> Decimal(nums.items[i].quantity)]]],
     tax |-> Charge(nums.charges.tax, nums.form),
     handling |-> Charge(nums.charges.handling, nums.form),
     insurance |-> Charge(nums.charges.insurance, nums.form),
     discount |-> Charge(nums.charges.discount, nums.form),
     shipping_discount |-> Charge(nums.charges.shipping_discount, nums.form)]

AmtIdle ==
    /\ orderNums = NoNums
    /\ orderData = Body(NoNums)
    /\ cr = NoCreate
    /\ sentOrder = NoOrder

AmountServices == {"index.js", "part_002"}

SpecAmountNext ==
    \/ \E p \in Callers : AdvCreateBegin(p)
    \/ \E p \in Callers : AdvCreateToken(p)
    \/ \E p \in Callers : AdvCreateTokenAnswer(p)
    \/ \E p \in Callers : AdvCreateTokenFailed(p)
    \/ \E p \in Callers : AdvCreateSend(p)
    \/ \E p \in Callers, answered \in BOOLEAN : AdvCreateFinish(p, answered)
    \/ \E outcome \in {"no token", "answered", "failed"} : P2CreateOrder(outcome)

\* The sum the caller's numbers stand for, in hundredths
RECURSIVE SumItems(_)
SumItems(items) ==
    IF items = <<>> THEN 0
    ELSE items[1].price * items[1].quantity + SumItems(Tail(items))

ExpectedTotal(nums) ==
    SumItems(nums.items) + nums.charges.tax + nums.charges.handling
        + nums.charges.insurance - nums.charges.discount
        - nums.charges.shipping_discount

\* C8: the amount value the advanced create-order handler sends is the exact
\* two-decimal sum of unit price times quantity over the items, plus tax,
\* handling and insurance, minus discount and shipping_discount.
C8_AmountIsExactSum ==
    sentOrder.svc = "index.js" =>
        sentOrder.value = Money(ExpectedTotal(orderNums))

\* C8 witness: items 1.50 x 2 and 3.00 x 1 with tax 0.45 were sent as "6.45".
C8_Witness ==
    /\ sentOrder.svc = "index.js"
    /\ orderNums.items = << [price |-> 150, quantity |-> 2],
                            [price |-> 300, quantity |-> 1] >>
    /\ orderNums.charges = [NoCharges EXCEPT !.tax = 45]
    /\ sentOrder.value = <<"6", ".", "4", "5">>

\* The number a component of the breakdown stands for, in thousandths: zero
\* when the component is not in the breakdown
Shown(component) == IF component.present THEN ParseFloat(component.value) ELSE 0

BreakdownSum(b) ==
    Shown(b.item_total) + Shown(b.tax_total) + Shown(b.handling) + Shown(b.insurance)
        - Shown(b.discount) - Shown(b.shipping_discount)

\* The components present add up, discounts subtracted, to the amount value.
PresentComponentsAddUp ==
    BreakdownSum(sentOrder.breakdown) = ParseFloat(sentOrder.value)

\* C21: in the payload of the advanced create-order handler each component
\* of the breakdown is present exactly when its value is not zero, and the
\* components present add up, discounts subtracted, to the amount value.
C21_BreakdownAddsUp ==
    sentOrder.svc = "index.js" =>
        /\ sentOrder.breakdown.item_total.present <=> SumItems(orderNums.items) # 0
        /\ sentOrder.breakdown.tax_total.present <=> orderNums.charges.tax # 0
        /\ sentOrder.breakdown.handling.present <=> orderNums.charges.handling # 0
        /\ sentOrder.breakdown.insurance.present <=> orderNums.charges.insurance # 0
        /\ sentOrder.breakdown.discount.present <=> orderNums.charges.discount # 0
        /\ sentOrder.breakdown.shipping_discount.present
               <=> orderNums.charges.shipping_discount # 0
        /\ PresentComponentsAddUp

\* C9: the amount sent for a request with a valid caller-supplied amount is
\* the recomputed total when items are supplied, and the caller-supplied
\* amount when no items are supplied.
C9_AmountConsistentWithCaller ==
    (sentOrder.svc # "none" /\ orderNums.hasAmount /\ orderNums.amount > 0) =>
        IF orderNums.hasItems /\ orderNums.items # <<>>
        THEN sentOrder.value = Money(ExpectedTotal(orderNums))
        ELSE ParseFloat(sentOrder.value) = ParseFloat(Money(orderNums.amount))

\* How far the create-order call of caller p has got: 0 no call in progress,
\* 1 validated and nothing sent, 2 token exchange awaited, 3 token call over,
\* 4 order creation request sent.
CreateRank(p) ==
    IF cr.stage = "free" \/ cr.caller # p THEN 0
    ELSE IF cr.stage = "sent" THEN 4
    ELSE IF pc[p] = "idle" THEN 1
    ELSE IF pc[p] = "await" THEN 2
    ELSE 3

\* A step of the create-order call of caller p that sends a token exchange,
\* and one that sends the order creation request
SendsExchange == exchanges' # exchanges
SendsCreation == cr.stage = "token" /\ cr'.stage = "sent"

Rejectable(nums) ==
    \/ ~nums.hasAmount
    \/ nums.amount = 0
    \/ nums.defect \in Defects

\* C13: a create-order request with a bad amount, an unsupported currency or
\* items that are not an array causes no token exchange and no order creation
\* request, and leaves the orders map as it was.
C13_InvalidRejectedBeforeProvider ==
    (service = "index.js" /\ Rejectable(orderNums)) =>
        /\ exchanges = 0
        /\ sentOrder = NoOrder
        /\ creates = <<>>
        /\ \A id \in OrderIds : orders[id] = "absent"

\* C14: a create-order request that validateOrderCreation rejects is answered
\* with status 400.
C14_ValidationAnswered400 ==
    (service = "index.js" /\ ~ValidOrderCreation(orderData) /\ cr.http # 0) =>
        cr.http = 400

-----------------------------------------------------------------------------
(* The refund request: src/index.js 522-561, POST /api/paypal/refund/:captureID *)

\* The values a field of a JSON body holds: undefined (absent), a number
\* (in units of 1 / Milli), a string.
Undefined == [type |-> "undefined", num |-> 0, text |-> <<>>]
Num(m) == [type |-> "number", num |-> m, text |-> <<>>]
Str(text) == [type |-> "string", num |-> 0, text |-> text]

\* The truthiness of a value: undefined, 0 and '' are falsy.
Truthy(v) ==
    CASE v.type = "undefined" -> FALSE
      [] v.type = "number" -> v.num # 0
      [] v.type = "string" -> v.text # <<>>

\* str without its trailing zeros
RECURSIVE StripZeros(_)
StripZeros(str) ==
    IF str # <<>> /\ str[Len(str)] = "0"
    THEN StripZeros(SubSeq(str, 1, Len(str) - 1))
    ELSE str

\* value.toString() (ToString is a name of the TLC module): a number is
\* written without trailing zeros.
ToStringOf(v) ==
    IF v.type = "string" THEN v.text
    ELSE LET frac == StripZeros(PadStart(Decimal(Abs(v.num) % Milli), 3, "0"))
         IN  (IF v.num < 0 THEN <<"-">> ELSE <<>>)
                 \o Decimal(Abs(v.num) \div Milli)
                 \o (IF frac = <<>> THEN <<>> ELSE <<".">> \o frac)

NoRefund == [sent |-> FALSE, hasAmount |-> FALSE, currency_code |-> <<>>, value |-> <<>>]

\* const refundData = { ...(amount && { amount: { currency_code: currency || 'USD',
\*                                                value: amount.toString() } }), ... }
RefundData(body) ==
    IF Truthy(body.amount)
    THEN [sent |-> TRUE, hasAmount |-> TRUE,
          currency_code |-> IF Truthy(body.currency) THEN ToStringOf(body.currency)
                            ELSE UsdText,
          value |-> ToStringOf(body.amount)]
    ELSE [NoRefund EXCEPT !.sent = TRUE]

NoRefundCall == [stage |-> "free", caller |-> 0, http |-> 0]

\* const { amount, currency, note_to_payer, invoice_id } = req.body;
RefundBegin(p) ==
    /\ rf.stage = "free"
    /\ pc[p] = "idle"
    /\ rf' = [stage |-> "token", caller |-> p, http |-> 0]
    /\ UNCHANGED <<refundBody, sentRefund, cardVars, amtVars, restVars, tokVars, idVars,
                   capVars, service>>

\* const accessToken = await generateAccessToken();
RefundToken(p) ==
    /\ rf.stage = "token" /\ rf.caller = p
    /\ pc[p] = "idle"
    /\ (GenTokenCacheHit(p) \/ GenTokenRequest(p))

RefundTokenAnswer(p) ==
    /\ rf.stage = "token" /\ rf.caller = p
    /\ \/ \E e \in ExpiresIn : ProviderTokenOk(p, e)
       \/ ProviderTokenError(p)
       \/ GenTokenStore(p)
       \/ GenTokenFail(p)

\* the token call threw: catch, res.status(500)
RefundTokenFailed(p) ==
    /\ rf.stage = "token" /\ rf.caller = p
    /\ pc[p] = "failed"
    /\ pc' = [pc EXCEPT ![p] = "idle"]
    /\ ret' = [ret EXCEPT ![p] = NoRet]
    /\ rf' = [stage |-> "free", caller |-> p, http |-> 500]
    /\ UNCHANGED <<now, cachedToken, tokenExpiry, resp, sentAt, nextTok,
                   exchanges, issued>>
    /\ UNCHANGED <<refundBody, sentRefund, cardVars, amtVars, restVars, idVars, capVars, service>>

\* const response = await axios({ method: 'POST', url: .../refund, ...,
\*                                data: JSON.stringify(refundData) })
RefundSend(p) ==
    /\ rf.stage = "token" /\ rf.caller = p
    /\ pc[p] = "done"
    /\ pc' = [pc EXCEPT ![p] = "idle"]
    /\ ret' = [ret EXCEPT ![p] = NoRet]
    /\ sentRefund' = RefundData(refundBody)
    /\ rf' = [rf EXCEPT !.stage = "sent"]
    /\ UNCHANGED <<now, cachedToken, tokenExpiry, resp, sentAt, nextTok,
                   exchanges, issued>>
    /\ UNCHANGED <<refundBody, cardVars, amtVars, restVars, idVars, capVars, service>>

\* res.json(response.data), or the catch: res.status(500)
RefundFinish(p, answered) ==
    /\ rf.stage = "sent" /\ rf.caller = p
    /\ rf' = [stage |-> "free", caller |-> p,
              http |-> IF answered THEN 200 ELSE 500]
    /\ UNCHANGED <<refundBody, sentRefund, cardVars, amtVars, restVars, tokVars, idVars,
                   capVars, service>>

\* The amounts of the refund requests: none, the numbers 0, 2.5 and 5, the
\* strings '5.00' and '0'.
RefundAmounts ==
    {Undefined, Num(0), Num(2500), Num(5000),
     Str(<<"5", ".", "0", "0">>), Str(<<"0">>)}

RefundCurrencies == {Undefined, Str(EurText)}

RefIdle ==
    /\ refundBody = [amount |-> Undefined, currency |-> Undefined]
    /\ rf = NoRefundCall
    /\ sentRefund = NoRefund

SpecRefundNext ==
    \/ \E p \in Callers : RefundBegin(p)
    \/ \E p \in Callers : RefundToken(p)
    \/ \E p \in Callers : RefundTokenAnswer(p)
    \/ \E p \in Callers : RefundTokenFailed(p)
    \/ \E p \in Callers : RefundSend(p)
    \/ \E p \in Callers, answered \in BOOLEAN : RefundFinish(p, answered)

\* C10: the refund request sent to the provider carries an amount field if
\* and only if the caller's request has an amount.
C10_RefundAmountIffSupplied ==
    sentRefund.sent =>
        (sentRefund.hasAmount <=> refundBody.amount.type # "undefined")

-----------------------------------------------------------------------------
(* The calls of createCardOrder: src/services/paypal.js 116-189.  Every     *)
(* caller makes one call; the token exchange of this service is not cached. *)

NoCall == [stage |-> "free", key |-> <<>>, orderID |-> 0, result |-> "none"]

\* A request to the provider, or the provider's answer to it
Request(kind, id) == [kind |-> kind, dir |-> "request", ok |-> TRUE, id |-> id]
Answer(kind, ok, id) == [kind |-> kind, dir |-> "answer", ok |-> ok, id |-> id]

\* The call p exchanges the messages msgs with the provider.
Exchange(p, msgs) == wire' = [wire EXCEPT ![p] = @ \o msgs]

\* const accessToken = await generateAccessToken();   (lines 6-22: one exchange)
CardOrderBegin(p) ==
    /\ service = "services/paypal.js"
    /\ cc[p].stage = "free"
    /\ cc' = [cc EXCEPT ![p].stage = "token"]
    /\ Exchange(p, <<Request("token", 0)>>)
    /\ UNCHANGED <<oldVars, mk, ap, oc, ex, nodeEnv, lateVars>>

\* The exchange is answered: the token is returned, or the catch of
\* generateAccessToken throws 'Failed to authenticate with PayPal', which
\* createCardOrder does not catch.
CardTokenAnswer(p, ok) ==
    /\ cc[p].stage = "token"
    /\ cc' = [cc EXCEPT ![p].stage = IF ok THEN "ready" ELSE "threw",
                        ![p].result = IF ok THEN "none" ELSE "auth"]
    /\ Exchange(p, <<Answer("token", ok, 0)>>)
    /\ UNCHANGED <<oldVars, mk, ap, oc, ex, nodeEnv, lateVars>>

\* const orderResponse = await axios({ url: .../v2/checkout/orders, ...
\*     'PayPal-Request-Id': `order-${Date.now()}-${Math.floor(Math.random() * 1000)}` })
CardCreateSend(p, r) ==
    /\ cc[p].stage = "ready"
    /\ cc' = [cc EXCEPT ![p].stage = "creating", ![p].key = <<"order", now, r>>]
    /\ Exchange(p, <<Request("create", 0)>>)
    /\ UNCHANGED <<oldVars, mk, ap, oc, ex, nodeEnv, lateVars>>

\* Mutant of AfterCreate: the capture is sent whatever the answer was.
AfterCreateAlways(ok) == "capturing"

\* The await of the creation request: on a 2xx answer the function goes on to
\* the capture request, otherwise axios throws into the catch.
AfterCreate(ok) == IF ok THEN "capturing" ELSE "threw"

\* The provider creates the order (or finds the one of the key) and, the card
\* being the payment source, holds it ready for capture.
CardProviderCreates(p) ==
    /\ Len(creates) < MaxCreates
    /\ creates' = Append(creates, [svc |-> "services/paypal.js",
                                   fn |-> "createCardOrder", key |-> cc[p].key,
                                   orderID |-> OrderFor("services/paypal.js", cc[p].key)])
    /\ provider' = [provider EXCEPT ![OrderFor("services/paypal.js", cc[p].key)] =
                        IF @ = "UNKNOWN" THEN "APPROVED" ELSE @]

\* The creation request is answered.  With a 2xx answer the capture request
\*   url: .../v2/checkout/orders/${orderResponse.data.id}/capture
\* leaves in the same step; an error answer or a network failure is caught:
\*   throw new Error(error.response?.data?.message || 'Card processing failed')
CardCreateAnswer(p, ok) ==
    /\ cc[p].stage = "creating"
    /\ IF ok THEN CardProviderCreates(p) ELSE UNCHANGED <<creates, provider>>
    /\ LET id == IF ok THEN OrderFor("services/paypal.js", cc[p].key) ELSE 0
       IN  /\ cc' = [cc EXCEPT ![p].stage = AfterCreate(ok),
                               ![p].orderID = id,
                               ![p].result = IF AfterCreate(ok) = "threw"
                                             THEN "card" ELSE "none"]
           /\ Exchange(p, <<Answer("create", ok, id)>>
                              \o (IF AfterCreate(ok) = "capturing"
                                  THEN <<Request("capture", id)>> ELSE <<>>))
    /\ UNCHANGED <<tokVars, uuids, orders, transactions, hd, lastReply, service,
                   cardVars, amtVars, refVars, mk, ap, oc, ex, nodeEnv, lateVars>>

\* The capture request is answered: return captureResponse.data, or the catch.
CardCaptureAnswer(p, r) ==
    /\ cc[p].stage = "capturing"
    /\ r \in CaptureAnswers(cc[p].orderID, TRUE) \cup {"NETERR"}
    /\ cc' = [cc EXCEPT ![p].stage = IF IsErrorAnswer(r) \/ r = "NETERR"
                                     THEN "threw" ELSE "returned",
                        ![p].result = IF IsErrorAnswer(r) \/ r = "NETERR"
                                      THEN "card" ELSE r]
    /\ Exchange(p, <<Answer("capture", ~(IsErrorAnswer(r) \/ r = "NETERR"),
                             cc[p].orderID)>>)
    /\ provider' = IF r = "COMPLETED"
                   THEN [provider EXCEPT ![cc[p].orderID] = "COMPLETED"]
                   ELSE provider
    /\ UNCHANGED <<tokVars, idVars, orders, transactions, hd, lastReply, service,
                   cardVars, amtVars, refVars, mk, ap, oc, ex, nodeEnv, lateVars>>

FlowIdle ==
    /\ cc = [p \in Callers |-> NoCall]
    /\ wire = [p \in Callers |-> <<>>]

SpecCardFlowNext ==
    \/ \E p \in Callers : CardOrderBegin(p)
    \/ \E p \in Callers, ok \in BOOLEAN : CardTokenAnswer(p, ok)
    \/ \E p \in Callers, r \in RandomDraws : CardCreateSend(p, r)
    \/ \E p \in Callers, ok \in BOOLEAN : CardCreateAnswer(p, ok)
    \/ \E p \in Callers, r \in {"HTTP401", "HTTP404", "HTTP422", "COMPLETED",
                                "OTHER", "NETERR"} : CardCaptureAnswer(p, r)

\* The positions of the messages of call p of the given kind and direction
Sent(p, kind, dir) ==
    {i \in 1..Len(wire[p]) : wire[p][i].kind = kind /\ wire[p][i].dir = dir}

\* C11: a capture request of createCardOrder follows a successful answer to
\* the creation request of the same call and names the order id that answer
\* returned; a call whose creation failed sends no capture request and throws.
C11_CaptureAfterCreation ==
    \A p \in Callers :
        /\ \A j \in Sent(p, "capture", "request") :
              /\ wire[p][j].id # 0
              /\ \E i \in 1..(j - 1) :
                    wire[p][i] = Answer("create", TRUE, wire[p][j].id)
        /\ (\E i \in Sent(p, "create", "answer") : ~wire[p][i].ok) =>
              /\ Sent(p, "capture", "request") = {}
              /\ cc[p].stage = "threw"

\* C11 witness: one call captured the order it created, another call's
\* creation failed.
C11_Witness ==
    \E p, q \in Callers :
        /\ cc[p].stage = "returned" /\ Sent(p, "capture", "request") # {}
        /\ cc[q].stage = "threw"
        /\ \E i \in Sent(q, "create", "answer") : ~wire[q][i].ok

-----------------------------------------------------------------------------
(* The intent of the order creation requests: src/index.js 297-299,         *)
(* src/unnamed/part_003 108-136, src/unnamed/part_006 23-34.                *)

LowerCase == <<"a", "b", "c", "d", "e", "f", "g", "h", "i", "j", "k", "l", "m",
               "n", "o", "p", "q", "r", "s", "t", "u", "v", "w", "x", "y", "z">>
UpperCase == <<"A", "B", "C", "D", "E", "F", "G", "H", "I", "J", "K", "L", "M",
               "N", "O", "P", "Q", "R", "S", "T", "U", "V", "W", "X", "Y", "Z">>

\* String.prototype.toUpperCase
ToUpperCase(str) ==
    [i \in 1..Len(str) |->
        IF \E k \in 1..Len(LowerCase) : LowerCase[k] = str[i]
        THEN UpperCase[CHOOSE k \in 1..Len(LowerCase) : LowerCase[k] = str[i]]
        ELSE str[i]]

CaptureText == <<"C", "A", "P", "T", "U", "R", "E">>
AuthorizeText == <<"A", "U", "T", "H", "O", "R", "I", "Z", "E">>

\* The intent field of the caller's request body or options
CallerIntents ==
    {Absent, Given(CaptureText), Given(AuthorizeText),
     Given(<<"c", "a", "p", "t", "u", "r", "e">>),
     Given(<<"a", "u", "t", "h", "o", "r", "i", "z", "e">>)}

NoMake == [stage |-> "free", intent |-> Absent, sentIntent |-> <<>>, units |-> 0]

\* The services whose order creation is modelled here
IntentServices == {"index.js", "part_003", "part_006"}

\* A caller asks the service for an order; the handler begins with the token.
MkBegin(p, intent) ==
    /\ service \in IntentServices
    /\ mk[p].stage = "free"
    /\ mk' = [mk EXCEPT ![p] = [NoMake EXCEPT !.stage = "token", !.intent = intent]]
    /\ UNCHANGED <<oldVars, flowVars, ap, oc, ex, nodeEnv, lateVars>>

\* The token is returned to the handler, or the token call fails: the
\* handler's catch answers with an error and nothing is sent.
MkToken(p, ok) ==
    /\ mk[p].stage = "token"
    /\ mk' = [mk EXCEPT ![p].stage = IF ok THEN "ready" ELSE "failed"]
    /\ UNCHANGED <<oldVars, flowVars, ap, oc, ex, nodeEnv, lateVars>>

\* src/index.js 297-299: const paypalOrderData = { intent: 'CAPTURE',
\*                                                  purchase_units: purchaseUnits, ... }
AdvMkSend(p) ==
    /\ service = "index.js"
    /\ mk[p].stage = "ready"
    /\ mk' = [mk EXCEPT ![p].stage = "sent", ![p].sentIntent = CaptureText,
                        ![p].units = 1]
    /\ UNCHANGED <<oldVars, flowVars, ap, oc, ex, nodeEnv, lateVars>>

\* src/unnamed/part_003 109-136: const { ..., intent = 'CAPTURE' } = options;
\*     data: { intent: intent, purchase_units: [{ ... }], ... }
P3MkSend(p) ==
    /\ service = "part_003"
    /\ mk[p].stage = "ready"
    /\ mk' = [mk EXCEPT ![p].stage = "sent",
                        ![p].sentIntent = Default(mk[p].intent, CaptureText),
                        ![p].units = 1]
    /\ UNCHANGED <<oldVars, flowVars, ap, oc, ex, nodeEnv, lateVars>>

\* src/unnamed/part_006 25-34: 'intent': req.body.intent.toUpperCase(),
\*     'purchase_units': [{ ... }]
\* Without an intent in the body toUpperCase is read from undefined: the
\* TypeError goes to the catch (500) and nothing is sent.
P6MkSend(p) ==
    /\ service = "part_006"
    /\ mk[p].stage = "ready"
    /\ mk' = IF mk[p].intent.given
             THEN [mk EXCEPT ![p].stage = "sent",
                             ![p].sentIntent = ToUpperCase(mk[p].intent.text),
                             ![p].units = 1]
             ELSE [mk EXCEPT ![p].stage = "failed"]
    /\ UNCHANGED <<oldVars, flowVars, ap, oc, ex, nodeEnv, lateVars>>

IntentIdle == mk = [p \in Callers |-> NoMake]

SpecIntentNext ==
    \/ \E p \in Callers, intent \in CallerIntents : MkBegin(p, intent)
    \/ \E p \in Callers, ok \in BOOLEAN : MkToken(p, ok)
    \/ \E p \in Callers : AdvMkSend(p)
    \/ \E p \in Callers : P3MkSend(p)
    \/ \E p \in Callers : P6MkSend(p)

\* C16: every order creation request sent to the provider has the intent
\* CAPTURE and one purchase unit, whatever intent the caller supplied.
C16_IntentIsCapture ==
    \A p \in Callers :
        mk[p].stage = "sent" =>
            /\ mk[p].sentIntent = CaptureText
            /\ mk[p].units = 1

-----------------------------------------------------------------------------
(* The result of the hosted-flow createOrder: src/services/paypal.js 28-86, *)
(* src/unnamed/part_002 17-91.                                              *)

MaxLinks == 2

\* The rel values of the links in an order response; every link of the
\* provider has an href, written here as the pair of its rel and the order.
Rels == {"self", "approve", "capture"}

Link(rel) == [rel |-> rel, href |-> <<"href", rel>>]

\* The links arrays of the provider's 2xx answers
LinkLists == UNION {[1..n -> {Link(r) : r \in Rels}] : n \in 0..MaxLinks}

\* What the creation request is answered with: a 2xx response with a links
\* array or without the links field, an error response, no response.
NoLinks == [kind |-> "none", links |-> <<>>]
CreateResponses ==
    {[kind |-> "2xx", links |-> l] : l \in LinkLists}
        \cup {[kind |-> k, links |-> <<>>] : k \in {"2xx no links", "error", "network"}}

\* Array.prototype.find(link => link.rel === rel): the first such link, at
\* position 0 when there is none (undefined)
Find(links, rel) ==
    IF \E i \in 1..Len(links) : links[i].rel = rel
    THEN CHOOSE i \in 1..Len(links) :
             links[i].rel = rel /\ \A j \in 1..(i - 1) : links[j].rel # rel
    ELSE 0

UndefinedHref == <<>>

\* Mutant of ApprovalUrl: as with links.find(...)?.href, no link gives undefined.
ApprovalUrlOptional(response) ==
    IF response.kind = "2xx" /\ Find(response.links, "approve") # 0
    THEN [threw |-> FALSE, href |-> response.links[Find(response.links, "approve")].href]
    ELSE [threw |-> response.kind \in {"error", "network"}, href |-> UndefinedHref]

\* links.find(link => link.rel === 'approve').href of the awaited response:
\* axios throws for an error response and a network failure; reading find of
\* undefined links, or href of an undefined link, throws a TypeError.
ApprovalUrl(response) ==
    IF response.kind = "2xx" /\ Find(response.links, "approve") # 0
    THEN [threw |-> FALSE, href |-> response.links[Find(response.links, "approve")].href]
    ELSE [threw |-> TRUE, href |-> UndefinedHref]

NoApproval == [stage |-> "free", response |-> NoLinks, approvalUrl |-> UndefinedHref]

ApproveServices == {"services/paypal.js", "part_002"}

\* const accessToken = await generateAccessToken();
HostedCreateBegin(p) ==
    /\ service \in ApproveServices
    /\ ap[p].stage = "free"
    /\ ap' = [ap EXCEPT ![p].stage = "token"]
    /\ UNCHANGED <<oldVars, flowVars, mk, oc, ex, nodeEnv, lateVars>>

\* The token is returned and the creation request is sent, or the token call
\* throws out of createOrder.
HostedCreateToken(p, ok) ==
    /\ ap[p].stage = "token"
    /\ ap' = [ap EXCEPT ![p].stage = IF ok THEN "sent" ELSE "threw"]
    /\ UNCHANGED <<oldVars, flowVars, mk, oc, ex, nodeEnv, lateVars>>

\* The creation request is answered: return { approvalUrl, orderID } (the
\* href alone in part_002), or the error thrown (rethrown by the catch of
\* src/services/paypal.js 82-85).
HostedCreateAnswer(p, response) ==
    /\ ap[p].stage = "sent"
    /\ ap' = [ap EXCEPT ![p].stage = IF ApprovalUrl(response).threw
                                     THEN "threw" ELSE "returned",
                        ![p].response = response,
                        ![p].approvalUrl = ApprovalUrl(response).href]
    /\ UNCHANGED <<oldVars, flowVars, mk, oc, ex, nodeEnv, lateVars>>

ApproveIdle == ap = [p \in Callers |-> NoApproval]

SpecApproveNext ==
    \/ \E p \in Callers : HostedCreateBegin(p)
    \/ \E p \in Callers, ok \in BOOLEAN : HostedCreateToken(p, ok)
    \/ \E p \in Callers, response \in CreateResponses : HostedCreateAnswer(p, response)

HasApproveLink(response) ==
    /\ response.kind = "2xx"
    /\ \E i \in 1..Len(response.links) : response.links[i].rel = "approve"

\* C17: createOrder returns a result only for a provider response that has a
\* link with rel approve, and the result carries that link's href; for an
\* error response and for a response without an approve link it throws.
C17_ResultHasApprovalUrl ==
    \A p \in Callers :
        /\ ap[p].stage = "returned" =>
              /\ HasApproveLink(ap[p].response)
              /\ ap[p].approvalUrl = Link("approve").href
        /\ (ap[p].response.kind # "none" /\ ~HasApproveLink(ap[p].response)) =>
              ap[p].stage = "threw"

\* C17 witness: one call returned the approve link that follows another link,
\* another call was answered with links that have no approve link and threw.
C17_Witness ==
    \E p, q \in Callers :
        /\ ap[p].stage = "returned"
        /\ ap[p].response.links = <<Link("self"), Link("approve")>>
        /\ ap[q].stage = "threw"
        /\ ap[q].response = [kind |-> "2xx", links |-> <<Link("self")>>]

-----------------------------------------------------------------------------
(* The outbound calls of the advanced service and their timeouts:           *)
(* src/index.js 169-199, 202-377, 380-478, 481-519, 522-561, 564-594,       *)
(* 597-620.  An axios call without a timeout option waits without limit.    *)

CreateTimeout == 30000
CaptureTimeout == 30000
NoTimeout == 0

Routes == {"create-order", "capture-order", "capture-authorization", "refund",
           "get order", "get capture"}

\* The timeout option of the route's axios call
TimeoutOf(route) ==
    CASE route = "create-order" -> CreateTimeout
      [] route = "capture-order" -> CaptureTimeout
      [] OTHER -> NoTimeout

\* The clock of the model runs on for longer than the timeouts of a handler
\* that begins at instant t.
ClockOutlasts(t) == \E u \in Instants : u - t >= TokenTimeout + CreateTimeout

NoOutbound == [route |-> "none", stage |-> "free", since |-> 0, http |-> 0,
               details |-> "none"]

NodeEnvs == {"development", "production", "undefined"}

\* The routes whose catch looks at NODE_ENV before it fills in the details
EnvGuarded(route) == route \in {"create-order", "capture-order"}

\* The details of the catch's response: error.response?.data || error.message,
\* where error is "provider payload" or "internal message".
Details(route, error) ==
    IF EnvGuarded(route)
    THEN IF nodeEnv = "development" THEN error ELSE "Payment processing error"
    ELSE error

\* The handler of the route begins: generateAccessToken returns the cached
\* token and the route's call is sent, or the token exchange is sent.
OutBegin(p, route) ==
    /\ service = "index.js"
    /\ oc[p].stage = "free"
    /\ ClockOutlasts(now)
    /\ IF CacheValid
       THEN /\ oc' = [oc EXCEPT ![p] = [NoOutbound EXCEPT !.route = route, !.stage = "call",
                                                           !.since = now]]
            /\ UNCHANGED exchanges
       ELSE /\ exchanges < MaxExchanges
            /\ exchanges' = exchanges + 1
            /\ oc' = [oc EXCEPT ![p] = [NoOutbound EXCEPT !.route = route, !.stage = "token",
                                                           !.since = now]]
    /\ UNCHANGED <<now, cachedToken, tokenExpiry, pc, resp, sentAt, ret, nextTok, issued>>
    /\ UNCHANGED <<idVars, capVars, service, cardVars, amtVars, refVars, flowVars, mk, ap, ex, nodeEnv, lateVars>>

\* The provider answers the token exchange in time: the token is stored and
\* the route's call is sent; an error answer goes to the handler's catch.
OutTokenAnswer(p, ok, e) ==
    /\ oc[p].stage = "token"
    /\ now - oc[p].since < TokenTimeout
    /\ IF ok
       THEN /\ StoreToken([tok |-> nextTok, expires_in |-> e])
            /\ nextTok' = nextTok + 1
            /\ oc' = [oc EXCEPT ![p].stage = "call", ![p].since = now]
       ELSE /\ oc' = [oc EXCEPT ![p].stage = "free", ![p].http = 500,
                                 ![p].details = Details(oc[p].route, "internal message")]
            /\ UNCHANGED <<cachedToken, tokenExpiry, nextTok>>
    /\ UNCHANGED <<now, pc, resp, sentAt, ret, exchanges, issued>>
    /\ UNCHANGED <<idVars, capVars, service, cardVars, amtVars, refVars, flowVars, mk, ap, ex, nodeEnv, lateVars>>

\* The provider answers the route's call before its timeout, if it has one:
\* the handler sends its response; an error answer comes with a payload or
\* with none, and goes to the catch.
OutCallAnswer(p, ok) ==
    /\ oc[p].stage = "call"
    /\ TimeoutOf(oc[p].route) # NoTimeout => now - oc[p].since < TimeoutOf(oc[p].route)
    /\ IF ok
       THEN oc' = [oc EXCEPT ![p].stage = "free", ![p].http = 200]
       ELSE \E error \in {"provider payload", "internal message"} :
                oc' = [oc EXCEPT ![p].stage = "free", ![p].http = 500,
                                 ![p].details = Details(oc[p].route, error)]
    /\ UNCHANGED <<tokVars, idVars, capVars, service, cardVars, amtVars, refVars,
                   flowVars, mk, ap, ex, nodeEnv, lateVars>>

\* The timeout of the call that handler p awaits has expired.
TimedOut(p) ==
    \/ oc[p].stage = "token" /\ now - oc[p].since >= TokenTimeout
    \/ /\ oc[p].stage = "call"
       /\ TimeoutOf(oc[p].route) # NoTimeout
       /\ now - oc[p].since >= TimeoutOf(oc[p].route)

\* axios rejects with a timeout error: the catch answers with status 500.
OutTimeout(p) ==
    /\ TimedOut(p)
    /\ oc' = [oc EXCEPT ![p].stage = "free", ![p].http = 500,
                         ![p].details = Details(oc[p].route, "internal message")]
    /\ UNCHANGED <<tokVars, idVars, capVars, service, cardVars, amtVars, refVars,
                   flowVars, mk, ap, ex, nodeEnv, lateVars>>

OutIdle == oc = [p \in Callers |-> NoOutbound]

SpecTimeoutsNext ==
    \/ \E p \in Callers, route \in Routes : OutBegin(p, route)
    \/ \E p \in Callers, ok \in BOOLEAN, e \in ExpiresIn : OutTokenAnswer(p, ok, e)
    \/ \E p \in Callers, ok \in BOOLEAN : OutCallAnswer(p, ok)
    \/ \E p \in Callers : OutTimeout(p)
    \/ \E t \in Instants : Tick(t)

\* C20: outside development no error response of the advanced service holds
\* the provider's error payload or the internal error message in its details.
C20_NoDetailsOutsideDevelopment ==
    \A p \in Callers :
        (nodeEnv # "development" /\ oc[p].http >= 400) =>
            oc[p].details \notin {"provider payload", "internal message"}

\* Time passes, and an expired timeout is acted upon; the provider is not
\* bound to answer.
TimeoutsFairness ==
    /\ WF_vars(\E t \in Instants : Tick(t))
    /\ \A p \in Callers : WF_vars(OutTimeout(p))

\* C18: every request handler of the advanced service eventually sends its
\* response, also when the provider never answers.
C18_EveryHandlerResponds ==
    \A p \in Callers : (oc[p].stage # "free") ~> (oc[p].stage = "free")

-----------------------------------------------------------------------------
(* The response bodies that carry a token: src/unnamed/part_000 31-91       *)
(* (GET /api/paypal/client-token) and 331-346 (GET                          *)
(* /api/paypal/test-credentials).  Texts are sequences of characters.       *)

TokenLength == 24           \* characters of an access token
PartLength == 4             \* characters that make a recognisable part of a token
PreviewLength == 20

Digit(i) == <<"0", "1", "2", "3", "4", "5", "6", "7", "8", "9">>[(i % 10) + 1]

\* The access tokens the provider issues
AccessTokenOf(c) == [i \in 1..TokenLength |-> IF i = 1 THEN c ELSE Digit(i)]
AccessTokens == {AccessTokenOf("A"), AccessTokenOf("B")}

\* The client tokens of the provider's identity API
ClientTokens == {<<"e", "y", "J", "x", "e", "y", "J", "y">>}

NoText == <<>>
Ellipsis == <<".", ".", ".">>

\* String.prototype.substring(0, end)
Substring(str, end) == SubSeq(str, 1, IF end < Len(str) THEN end ELSE Len(str))

NoBody == [status |-> 0, clientToken |-> NoText, note |-> FALSE,
           token_preview |-> NoText, error |-> FALSE]
NoExposure == [route |-> "none", stage |-> "free", tokens |-> {}, sent |-> <<>>,
               body |-> NoBody]

TokenRoutes == {"client-token", "test-credentials"}

\* The handler begins and sends its token exchange (getPayPalAccessToken).
ExBegin(p, route) ==
    /\ service = "part_000"
    /\ ex[p].stage = "free"
    /\ ex' = [ex EXCEPT ![p] = [NoExposure EXCEPT !.route = route, !.stage = "token",
                                                   !.sent = <<"token">>]]
    /\ UNCHANGED <<oldVars, flowVars, mk, ap, oc, nodeEnv, lateVars>>

\* test-credentials: the preview of the token, or the error response
TestCredentialsAnswer(p, ok, t) ==
    /\ ex[p].route = "test-credentials"
    /\ ex[p].stage = "token"
    /\ IF ok
       THEN ex' = [ex EXCEPT ![p].stage = "free", ![p].tokens = {t},
                             ![p].body = [NoBody EXCEPT
                                 !.status = 200,
                                 !.token_preview = Substring(t, PreviewLength) \o Ellipsis]]
       ELSE ex' = [ex EXCEPT ![p].stage = "free",
                             ![p].body = [NoBody EXCEPT !.status = 500, !.error = TRUE]]
    /\ UNCHANGED <<oldVars, flowVars, mk, ap, oc, nodeEnv, lateVars>>

\* client-token: the token exchange is answered; the identity call is sent
\* with the token, or the catch begins its fallback exchange.  sent lists the
\* requests the handler has sent to the provider.
ClientTokenExchange(p, ok, t) ==
    /\ ex[p].route = "client-token"
    /\ ex[p].stage = "token"
    /\ IF ok
       THEN ex' = [ex EXCEPT ![p].stage = "identity", ![p].tokens = {t},
                             ![p].sent = Append(@, "identity")]
       ELSE ex' = [ex EXCEPT ![p].stage = "fallback", ![p].sent = Append(@, "token")]
    /\ UNCHANGED <<oldVars, flowVars, mk, ap, oc, nodeEnv, lateVars>>

\* client-token: the identity API answers with a client token, or fails and
\* the catch begins its fallback exchange.
ClientTokenIdentity(p, ok, c) ==
    /\ ex[p].stage = "identity"
    /\ IF ok
       THEN ex' = [ex EXCEPT ![p].stage = "free",
                             ![p].body = [NoBody EXCEPT !.status = 200, !.clientToken = c]]
       ELSE ex' = [ex EXCEPT ![p].stage = "fallback", ![p].sent = Append(@, "token")]
    /\ UNCHANGED <<oldVars, flowVars, mk, ap, oc, nodeEnv, lateVars>>

\* client-token: the fallback of the catch answers with the access token of
\* a second exchange, or with the error response.
ClientTokenFallback(p, ok, t) ==
    /\ ex[p].stage = "fallback"
    /\ IF ok
       THEN ex' = [ex EXCEPT ![p].stage = "free", ![p].tokens = @ \cup {t},
                             ![p].body = [NoBody EXCEPT !.status = 200, !.clientToken = t,
                                                        !.note = TRUE]]
       ELSE ex' = [ex EXCEPT ![p].stage = "free",
                             ![p].body = [NoBody EXCEPT !.status = 500, !.error = TRUE]]
    /\ UNCHANGED <<oldVars, flowVars, mk, ap, oc, nodeEnv, lateVars>>

ExIdle == ex = [p \in Callers |-> NoExposure]

SpecExposureNext ==
    \/ \E p \in Callers, route \in TokenRoutes : ExBegin(p, route)
    \/ \E p \in Callers, ok \in BOOLEAN, t \in AccessTokens : TestCredentialsAnswer(p, ok, t)
    \/ \E p \in Callers, ok \in BOOLEAN, t \in AccessTokens : ClientTokenExchange(p, ok, t)
    \/ \E p \in Callers, ok \in BOOLEAN, c \in ClientTokens : ClientTokenIdentity(p, ok, c)
    \/ \E p \in Callers, ok \in BOOLEAN, t \in AccessTokens : ClientTokenFallback(p, ok, t)

\* text holds PartLength consecutive characters of the token
HasPartOf(text, token) ==
    \E i \in 1..(Len(token) - PartLength + 1), k \in 1..(Len(text) - PartLength + 1) :
        SubSeq(token, i, i + PartLength - 1) = SubSeq(text, k, k + PartLength - 1)

\* C24: when the identity call of client-token fails, the handler answers
\* with the access token as clientToken, and it sends no provider request a
\* second time while it handles one inbound request.
C24_FallbackIsNoRetry ==
    \A p \in Callers :
        /\ (ex[p].route = "client-token" /\ ex[p].stage = "free"
                /\ ex[p].body.status = 200 /\ ex[p].body.note)
               => ex[p].body.clientToken \in ex[p].tokens
        /\ \A i, j \in 1..Len(ex[p].sent) : i # j => ex[p].sent[i] # ex[p].sent[j]

\* The access tokens the handlers have obtained
Obtained == UNION {ex[q].tokens : q \in Callers}

\* C19: no response body contains an access token that a handler obtained,
\* or a part of one.
C19_TokenNeverInBody ==
    \A p \in Callers, t \in Obtained :
        /\ ~HasPartOf(ex[p].body.clientToken, t)
        /\ ~HasPartOf(ex[p].body.token_preview, t)

-----------------------------------------------------------------------------
(* The orders map of the advanced service: src/index.js 142-144, 348-360,   *)
(* 380-478, 522-561, 564-594, 639-712.  Beside create-order and             *)
(* capture-order, the handlers that could touch a stored order.             *)

\* The provider's representation of an order
ProviderOrder(id) == [id |-> id, status |-> provider[id]]

\* const enhancedOrder = { ...response.data,
\*                         ...(storedOrder && { stored_data: storedOrder }) };
EnhancedOrder(data, stored) ==
    IF stored # "absent"
    THEN [id |-> data.id, status |-> data.status,
          stored_data |-> [id |-> data.id, status |-> stored]]
    ELSE data

ErrorBody == [error |-> "Failed to fetch order details"]

\* GET /api/paypal/order/:orderID, from the request to the response: the
\* provider answers the GET with the order, or the token call or the GET
\* fails (the provider answers an unknown id with an error): catch, 500.
\* The reply holds the response body, and the provider's body as its answer.
AdvGetOrder(id, outcome) ==
    /\ service = "index.js"
    /\ IF outcome = "answered"
       THEN /\ provider[id] # "UNKNOWN"
            /\ lastReply' = [route |-> "get order", orderID |-> id, http |-> 200,
                             success |-> "none",
                             body |-> EnhancedOrder(ProviderOrder(id), orders[id]),
                             answer |-> ProviderOrder(id)]
       ELSE lastReply' = [route |-> "get order", orderID |-> id, http |-> 500,
                          success |-> "none", body |-> ErrorBody, answer |-> "none"]
    /\ UNCHANGED <<tokVars, idVars, provider, orders, transactions, hd, service, payloadVars>>

\* POST /api/paypal/webhook: 401 without the transmission headers ("unsigned"),
\* 500 when the body does not parse ("not JSON"); else the event is "handled":
\* the handlers of PAYMENT.CAPTURE.COMPLETED, PAYMENT.CAPTURE.DENIED,
\* PAYMENT.CAPTURE.REFUNDED, CHECKOUT.ORDER.APPROVED and
\* CHECKOUT.ORDER.COMPLETED log the event and store nothing, as does the
\* default branch, and the response is 200.
AdvWebhook(outcome) ==
    /\ service = "index.js"
    /\ lastReply' = [route |-> "webhook", orderID |-> 0,
                     http |-> CASE outcome = "unsigned" -> 401
                                [] outcome = "not JSON" -> 500
                                [] OTHER -> 200,
                     success |-> "none",
                     body |-> IF outcome = "handled" THEN "status" ELSE "error",
                     answer |-> "none"]
    /\ UNCHANGED <<tokVars, idVars, provider, orders, transactions, hd, service, payloadVars>>

\* POST /api/paypal/refund/:captureID, from the request to the response, its
\* payload aside: the provider's refund is relayed, or the catch answers 500.
AdvRefundRun(answered) ==
    /\ service = "index.js"
    /\ lastReply' = [route |-> "refund", orderID |-> 0,
                     http |-> IF answered THEN 200 ELSE 500,
                     success |-> "none",
                     body |-> IF answered THEN "provider-json" ELSE "error",
                     answer |-> "none"]
    /\ UNCHANGED <<tokVars, idVars, provider, orders, transactions, hd, service, payloadVars>>

SpecOrdersNext ==
    \/ AdvCreateOrder
    \/ \E id \in OrderIds : PayerApproves(id)
    \/ \E p \in Callers, id \in OrderIds : AdvCaptureBegin(p, id)
    \/ \E p \in Callers : AdvCaptureToken(p)
    \/ \E p \in Callers : AdvCaptureTokenAnswer(p)
    \/ \E p \in Callers : AdvCaptureTokenFailed(p)
    \/ \E p \in Callers : AdvCaptureSend(p)
    \/ \E p \in Callers : AdvCaptureFinish(p)
    \/ \E p \in Callers, r \in {"HTTP401", "HTTP404", "HTTP422", "COMPLETED",
                                "OTHER", "NETERR"} : ProviderCapture(p, r)
    \/ \E id \in OrderIds, outcome \in {"answered", "failed"} : AdvGetOrder(id, outcome)
    \/ \E outcome \in {"unsigned", "not JSON", "handled"} : AdvWebhook(outcome)
    \/ \E answered \in BOOLEAN : AdvRefundRun(answered)

\* The stored order id becomes COMPLETED in this step.
Completes(id) == orders[id] # "COMPLETED" /\ orders'[id] = "COMPLETED"

\* Handler p ends in this step a capture call for id that the provider
\* answered with the status COMPLETED.
EndsCompletedCapture(p, id) ==
    /\ hd[p].route = "adv" /\ hd[p].orderID = id
    /\ hd[p].stage = "answered" /\ hd[p].res = "COMPLETED"
    /\ hd'[p] = NoHandler

\* C23: a stored order becomes COMPLETED only in the step of a capture call
\* for its id that the provider answered with the status COMPLETED, and a
\* COMPLETED stored order keeps its status in every step.
C23_CompletedOnlyByCapture ==
    [][\A id \in OrderIds :
           /\ Completes(id) => \E p \in Callers : EndsCompletedCapture(p, id)
           /\ orders[id] = "COMPLETED" => orders'[id] = "COMPLETED"]_vars

\* C23 witness: an order was completed, a later capture call for it was
\* answered with an error by the provider, and a webhook, a refund or a read
\* has been handled since.
C23_Witness ==
    \E id \in OrderIds :
        /\ orders[id] = "COMPLETED"
        /\ lastReply.route \in {"webhook", "refund", "get order"}
        /\ \E p \in Callers : hd[p].route = "adv" /\ hd[p].orderID = id
                                 /\ hd[p].stage = "answered" /\ hd[p].res = "HTTP422"

\* C25: a successful response of get order is the provider's representation
\* of the order, with no field added, removed or changed.
C25_GetOrderUnmodified ==
    (lastReply.route = "get order" /\ lastReply.http = 200) =>
        lastReply.body = lastReply.answer

\* Handler p sends its capture request to the provider in this step.
SendsCapture(p) ==
    /\ hd[p].route = "adv"
    /\ hd[p].stage = "token" /\ hd'[p].stage = "sent"

\* C27: no capture request is sent to the provider for an order id whose
\* stored order has the status COMPLETED, and an order has at most one
\* transaction record.
C27_NoCaptureAfterCompleted ==
    /\ [][\A p \in Callers : SendsCapture(p) => orders[hd[p].orderID] # "COMPLETED"]_vars
    /\ [](\A id \in OrderIds : Cardinality({t \in transactions : t.orderID = id}) <= 1)

\* The stored orders with the status COMPLETED
CompletedOrders == {id \in OrderIds : orders[id] = "COMPLETED"}

\* C28: every stored order marked COMPLETED has a transaction record with
\* its id as orderID, and there are as many transaction records as orders
\* completed through capture.
C28_TransactionPerCompletedOrder ==
    /\ \A id \in CompletedOrders : \E t \in transactions : t.orderID = id
    /\ Cardinality(transactions) = Cardinality(CompletedOrders)

\* C28 witness: two orders have been completed through capture.
C28_Witness == Cardinality(CompletedOrders) = 2 /\ Cardinality(transactions) = 2

-----------------------------------------------------------------------------
(* POST /api/paypal/process-payment: src/unnamed/part_000 156-232 *)

\* What req.body.paymentSource can be: absent, an object, or the empty string
PaymentSources == {"undefined", "object", "empty string"}

\* if (paymentSource): undefined and '' are falsy
SourceTruthy(source) == source = "object"

NoProcess == [stage |-> "free", source |-> "undefined", sent |-> <<>>,
              patch |-> "none", http |-> 0, success |-> "none"]

\* const { orderID, paymentSource } = req.body;
\* if (!orderID) return res.status(400).json({ error: 'Order ID is required' });
\* const accessToken = await getPayPalAccessToken();
ProcessBegin(p, hasOrder, source) ==
    /\ service = "part_000"
    /\ pp[p].stage = "free"
    /\ pp' = [pp EXCEPT ![p] =
                 IF hasOrder
                 THEN [NoProcess EXCEPT !.stage = "token", !.source = source,
                                        !.sent = <<"token">>]
                 ELSE [NoProcess EXCEPT !.source = source, !.http = 400]]
    /\ UNCHANGED <<earlyVars, ft>>

\* The token exchange is answered: the PATCH is sent if (paymentSource), else
\* the capture; or getPayPalAccessToken throws: catch, res.status(500).
ProcessToken(p, ok) ==
    /\ pp[p].stage = "token"
    /\ pp' = [pp EXCEPT ![p] =
                 IF ~ok
                 THEN [@ EXCEPT !.stage = "free", !.http = 500, !.success = "false"]
                 ELSE IF SourceTruthy(@.source)
                      THEN [@ EXCEPT !.stage = "patch", !.patch = "sent",
                                     !.sent = Append(@, "patch")]
                      ELSE [@ EXCEPT !.stage = "capture", !.sent = Append(@, "capture")]]
    /\ UNCHANGED <<earlyVars, ft>>

\* Mutant of ProcessPatch: a failed PATCH is passed over.
ProcessPatchPassedOver(p, ok) ==
    /\ pp[p].stage = "patch"
    /\ pp' = [pp EXCEPT ![p] = [@ EXCEPT !.stage = "capture",
                                         !.patch = IF ok THEN "ok" ELSE "failed",
                                         !.sent = Append(@, "capture")]]
    /\ UNCHANGED <<earlyVars, ft>>

\* await axios.patch(...) resolves and the capture is sent, or it rejects:
\* catch, res.status(500).json({ success: false, ... })
ProcessPatch(p, ok) ==
    /\ pp[p].stage = "patch"
    /\ pp' = [pp EXCEPT ![p] =
                 IF ok
                 THEN [@ EXCEPT !.stage = "capture", !.patch = "ok",
                                !.sent = Append(@, "capture")]
                 ELSE [@ EXCEPT !.stage = "free", !.patch = "failed", !.http = 500,
                                !.success = "false"]]
    /\ UNCHANGED <<earlyVars, ft>>

\* The capture is answered: COMPLETED, another status, or an error (catch).
ProcessCapture(p, r) ==
    /\ pp[p].stage = "capture"
    /\ pp' = [pp EXCEPT ![p] =
                 [@ EXCEPT !.stage = "free",
                           !.http = IF r = "error" THEN 500 ELSE 200,
                           !.success = IF r = "COMPLETED" THEN "true" ELSE "false"]]
    /\ UNCHANGED <<earlyVars, ft>>

PpIdle == pp = [p \in Callers |-> NoProcess]

SpecProcessNext ==
    \/ \E p \in Callers, hasOrder \in BOOLEAN, source \in PaymentSources :
           ProcessBegin(p, hasOrder, source)
    \/ \E p \in Callers, ok \in BOOLEAN : ProcessToken(p, ok)
    \/ \E p \in Callers, ok \in BOOLEAN : ProcessPatch(p, ok)
    \/ \E p \in Callers, r \in {"COMPLETED", "OTHER", "error"} : ProcessCapture(p, r)

\* The place of a request among those handler p has sent, 0 if it was not sent
PlaceOf(p, kind) ==
    IF \E i \in 1..Len(pp[p].sent) : pp[p].sent[i] = kind
    THEN CHOOSE i \in 1..Len(pp[p].sent) : pp[p].sent[i] = kind
    ELSE 0

\* C30: with a payment source supplied, the capture request is sent only
\* after the PATCH of the order's payment_source has succeeded; after a failed
\* PATCH no capture request is sent and the handler answers 500 with
\* success: false.
C30_CaptureAfterPatch ==
    \A p \in Callers :
        SourceTruthy(pp[p].source) =>
            /\ PlaceOf(p, "capture") > 0 =>
                   (pp[p].patch = "ok" /\ 0 < PlaceOf(p, "patch")
                       /\ PlaceOf(p, "patch") < PlaceOf(p, "capture"))
            /\ pp[p].patch = "failed" =>
                   (PlaceOf(p, "capture") = 0 /\ pp[p].stage = "free"
                       /\ pp[p].http = 500 /\ pp[p].success = "false")

\* C30 witness: one call with a payment source was answered after its PATCH
\* failed, another sent its capture after its PATCH succeeded.
C30_Witness ==
    \E p, q \in Callers :
        /\ pp[p].patch = "failed" /\ pp[p].http = 500
        /\ pp[q].patch = "ok" /\ PlaceOf(q, "capture") > 0

-----------------------------------------------------------------------------
(* The fetch-based backend: src/unnamed/part_006 *)

FetchRoutes == {"/create_order", "/complete_order", "/get_client_token"}

NoFetch == [route |-> "none", stage |-> "free", intent |-> FALSE, responses |-> 0,
            http |-> 0]

\* The handler calls get_access_token(); intent says whether req.body.intent
\* is a string.
FtBegin(p, route, intent) ==
    /\ service = "part_006"
    /\ ft[p].stage = "free"
    /\ ft' = [ft EXCEPT ![p] = [NoFetch EXCEPT !.route = route, !.stage = "token",
                                               !.intent = intent]]
    /\ UNCHANGED <<earlyVars, pp>>

\* get_access_token() settles.
\*   "reject":    the fetch or res.json() rejected: the outer .catch answers 500
\*   "ok", "undefined": it resolved, with a token or, from an error body, with
\*                undefined; the .then callback runs.  In /create_order
\*                req.body.intent.toUpperCase() throws when intent is no
\*                string: the outer .catch answers 500.  Else the fetch is
\*                started, and the callback returns without returning it.
FtToken(p, outcome) ==
    /\ ft[p].stage = "token"
    /\ ft' = [ft EXCEPT ![p] =
                 IF outcome = "reject" \/ (@.route = "/create_order" /\ ~@.intent)
                 THEN [@ EXCEPT !.stage = "free", !.responses = @ + 1, !.http = 500]
                 ELSE [@ EXCEPT !.stage = "sent"]]
    /\ UNCHANGED <<earlyVars, pp>>

\* The inner chain fetch(...).then(res => res.json()).then(json => res.send(...))
\*   "json":     a JSON body, whatever the HTTP status: it is sent with status 200
\*   "not JSON", "network": res.json() or the fetch rejects; the chain was not
\*               returned to the outer one, so no .catch handles the rejection
\*               and nothing is sent.
FtAnswer(p, r) ==
    /\ ft[p].stage = "sent"
    /\ ft' = [ft EXCEPT ![p] =
                 IF r = "json"
                 THEN [@ EXCEPT !.stage = "free", !.responses = @ + 1, !.http = 200]
                 ELSE [@ EXCEPT !.stage = "hung"]]
    /\ UNCHANGED <<earlyVars, pp>>

FtIdle == ft = [p \in Callers |-> NoFetch]

SpecFetchNext ==
    \/ \E p \in Callers, route \in FetchRoutes, intent \in BOOLEAN : FtBegin(p, route, intent)
    \/ \E p \in Callers, outcome \in {"ok", "undefined", "reject"} : FtToken(p, outcome)
    \/ \E p \in Callers, r \in {"json", "not JSON", "network"} : FtAnswer(p, r)

\* Every request sent to the provider settles: it is answered or it fails.
FetchFairness ==
    \A p \in Callers :
        /\ WF_vars(\E outcome \in {"ok", "undefined", "reject"} : FtToken(p, outcome))
        /\ WF_vars(\E r \in {"json", "not JSON", "network"} : FtAnswer(p, r))

\* C29: every request to /create_order, /complete_order and
\* /get_client_token eventually gets its response, and never more than one.
C29_ExactlyOneResponse ==
    \A p \in Callers :
        /\ [](ft[p].responses <= 1)
        /\ (ft[p].stage # "free") ~> (ft[p].stage = "free" /\ ft[p].responses = 1)

-----------------------------------------------------------------------------
(* The specifications *)

\* The later parts at rest
EnvIdle == nodeEnv = "production"

LateIdle == PpIdle /\ FtIdle

RestIdle == FlowIdle /\ IntentIdle /\ ApproveIdle /\ OutIdle /\ ExIdle /\ EnvIdle /\ LateIdle

\* The services of the repository that handle captures: the advanced service
\* and the checkout SDK service of src/index.js, the fetch-based backend, the
\* service of src/server.js.
Services == {"index.js", "index.js (sdk)", "part_006", "server.js"}

Init == TokInit /\ IdIdle /\ CapIdle /\ CardIdle /\ AmtIdle /\ RefIdle /\ RestIdle /\ service = "index.js"

CapInit == TokInit /\ IdIdle /\ CapIdle /\ CardIdle /\ AmtIdle /\ RefIdle /\ RestIdle /\ service \in Services

\* The services whose order creation sends a PayPal-Request-Id.
KeyServices == {"services/paypal.js", "part_003", "index.js"}

IdInit == TokInit /\ IdIdle /\ CapIdle /\ CardIdle /\ AmtIdle /\ RefIdle /\ RestIdle /\ service \in KeyServices

\* The caller's card expiry is one of M/YY and MM/YY.
CardInit ==
    /\ TokInit /\ IdIdle /\ CapIdle /\ AmtIdle /\ RefIdle /\ RestIdle /\ service = "services/paypal.js"
    /\ \E m \in 1..12, y \in CardYears, padded \in BOOLEAN :
          /\ cardDate = [month |-> m, year |-> y]
          /\ cardDetails = [expiry |-> ExpiryText(m, y, padded)]
    /\ sentExpiry = [v \in CardVariants |-> Unsent]

\* The caller's request is any of the order requests.
AmtInit ==
    /\ TokInit /\ IdIdle /\ CapIdle /\ CardIdle /\ RefIdle /\ RestIdle
    /\ service \in AmountServices
    /\ \E nums \in OrderRequests(service) :
          /\ orderNums = nums
          /\ orderData = Body(nums)
    /\ cr = NoCreate
    /\ sentOrder = NoOrder

\* The caller's refund request is any of the refund requests.
RefInit ==
    /\ TokInit /\ IdIdle /\ CapIdle /\ CardIdle /\ AmtIdle /\ RestIdle /\ service = "index.js"
    /\ \E a \in RefundAmounts, c \in RefundCurrencies :
          refundBody = [amount |-> a, currency |-> c]
    /\ rf = NoRefundCall
    /\ sentRefund = NoRefund

FlowInit ==
    /\ TokInit /\ IdIdle /\ CapIdle /\ CardIdle /\ AmtIdle /\ RefIdle
    /\ FlowIdle /\ IntentIdle /\ ApproveIdle /\ OutIdle /\ ExIdle /\ EnvIdle /\ LateIdle
    /\ service = "services/paypal.js"

IntentInit ==
    /\ TokInit /\ IdIdle /\ CapIdle /\ CardIdle /\ AmtIdle /\ RefIdle
    /\ FlowIdle /\ IntentIdle /\ ApproveIdle /\ OutIdle /\ ExIdle /\ EnvIdle /\ LateIdle
    /\ service \in IntentServices

ApproveInit ==
    /\ TokInit /\ IdIdle /\ CapIdle /\ CardIdle /\ AmtIdle /\ RefIdle
    /\ FlowIdle /\ IntentIdle /\ ApproveIdle /\ OutIdle /\ ExIdle /\ EnvIdle /\ LateIdle
    /\ service \in ApproveServices

OutInit ==
    /\ TokInit /\ IdIdle /\ CapIdle /\ CardIdle /\ AmtIdle /\ RefIdle
    /\ FlowIdle /\ IntentIdle /\ ApproveIdle /\ OutIdle /\ ExIdle /\ EnvIdle /\ LateIdle
    /\ service = "index.js"

DetailsInit ==
    /\ TokInit /\ IdIdle /\ CapIdle /\ CardIdle /\ AmtIdle /\ RefIdle
    /\ FlowIdle /\ IntentIdle /\ ApproveIdle /\ OutIdle /\ ExIdle
    /\ nodeEnv \in NodeEnvs
    /\ LateIdle
    /\ service = "index.js"

ExInit ==
    /\ TokInit /\ IdIdle /\ CapIdle /\ CardIdle /\ AmtIdle /\ RefIdle
    /\ FlowIdle /\ IntentIdle /\ ApproveIdle /\ OutIdle /\ ExIdle /\ EnvIdle /\ LateIdle
    /\ service = "part_000"

OrdersInit ==
    /\ TokInit /\ IdIdle /\ CapIdle /\ CardIdle /\ AmtIdle /\ RefIdle /\ RestIdle
    /\ service = "index.js"

ProcessInit ==
    /\ TokInit /\ IdIdle /\ CapIdle /\ CardIdle /\ AmtIdle /\ RefIdle /\ RestIdle
    /\ service = "part_000"

FetchInit ==
    /\ TokInit /\ IdIdle /\ CapIdle /\ CardIdle /\ AmtIdle /\ RefIdle /\ RestIdle
    /\ service = "part_006"

SpecCaptureNext ==
    \/ AdvCreateOrder
    \/ OtherCreateOrder
    \/ \E id \in OrderIds : PayerApproves(id)
    \/ \E p \in Callers, id \in OrderIds : AdvCaptureBegin(p, id)
    \/ \E p \in Callers : AdvCaptureToken(p)
    \/ \E p \in Callers : AdvCaptureTokenAnswer(p)
    \/ \E p \in Callers : AdvCaptureTokenFailed(p)
    \/ \E p \in Callers : AdvCaptureSend(p)
    \/ \E p \in Callers : AdvCaptureFinish(p)
    \/ \E p \in Callers, id \in OrderIds : SdkCaptureBegin(p, id)
    \/ \E p \in Callers : SdkCaptureFinish(p)
    \/ \E p \in Callers, id \in OrderIds : SrvCaptureBegin(p, id)
    \/ \E p \in Callers, ok \in BOOLEAN : SrvCaptureToken(p, ok)
    \/ \E p \in Callers : SrvCaptureFinish(p)
    \/ \E p \in Callers, id \in OrderIds : FetchCompleteBegin(p, id)
    \/ \E p \in Callers, o \in {"ok", "undefined", "reject"} : FetchCompleteToken(p, o)
    \/ \E p \in Callers : FetchCompleteFinish(p)
    \/ \E p \in Callers, r \in {"HTTP401", "HTTP404", "HTTP422", "COMPLETED",
                                "OTHER", "NETERR"} : ProviderCapture(p, r)

Next ==
    \/ \E p \in Callers : GenTokenCacheHit(p)
    \/ \E p \in Callers : GenTokenRequest(p)
    \/ \E p \in Callers, e \in ExpiresIn : ProviderTokenOk(p, e)
    \/ \E p \in Callers : ProviderTokenError(p)
    \/ \E p \in Callers : GenTokenStore(p)
    \/ \E p \in Callers : GenTokenFail(p)
    \/ \E t \in Instants : Tick(t)

Spec == Init /\ [][Next]_vars

\* The idempotency keys of the order creation calls
SpecIds == IdInit /\ [][SpecIdsNext]_vars

\* The capture handlers of the three services
SpecCapture == CapInit /\ [][SpecCaptureNext]_vars

\* The card expiry of the createCardOrder variants
SpecCard == CardInit /\ [][SpecCardNext]_vars

\* The order amount of the create-order calls
SpecAmount == AmtInit /\ [][SpecAmountNext]_vars

\* The refund requests of the advanced service
SpecRefund == RefInit /\ [][SpecRefundNext]_vars

\* The calls of createCardOrder
SpecCardFlow == FlowInit /\ [][SpecCardFlowNext]_vars

\* The intent of the order creation requests
SpecIntent == IntentInit /\ [][SpecIntentNext]_vars

\* The result of the hosted-flow createOrder
SpecApprove == ApproveInit /\ [][SpecApproveNext]_vars

\* The outbound calls of the advanced service, with time passing
SpecTimeouts == OutInit /\ [][SpecTimeoutsNext]_vars /\ TimeoutsFairness

\* The token endpoints of part_000
SpecExposure == ExInit /\ [][SpecExposureNext]_vars

\* The error responses of the advanced service, under every NODE_ENV
SpecDetails == DetailsInit /\ [][SpecTimeoutsNext]_vars

\* The orders map of the advanced service
SpecOrders == OrdersInit /\ [][SpecOrdersNext]_vars

\* process-payment of part_000
SpecProcess == ProcessInit /\ [][SpecProcessNext]_vars

\* The fetch-based backend, every provider request settling
SpecFetch == FetchInit /\ [][SpecFetchNext]_vars /\ FetchFairness

====
